---------------------------- MODULE Spec2Model ----------------------------
(***************************************************************************)
(* A model of the Fantasy-Predictor projection engine (src/predictor.py)   *)
(* and of the request handling around it.                                  *)
(*                                                                         *)
(* Numbers.  The program computes with Python floats.  The model computes  *)
(* with exact rationals <<n, d>> (d > 0, lowest terms), so 0.85 is         *)
(* <<17, 20>> and pts / 2.1 is pts * 10 / 21.                              *)
(*                                                                         *)
(* Dates.  A date is an integer day number; the days of the requested week *)
(* are 1 .. NDays.                                                         *)
(*                                                                         *)
(* Dictionaries.  A Python dict is a function whose DOMAIN is the set of   *)
(* keys present; `d.get(k) or default' is GetOr(d, k, default).            *)
(***************************************************************************)
EXTENDS Integers, Sequences, FiniteSets, TLC

VARIABLES
    pc,                     \* position of the request being served
    \* ---- inputs of _project_team_with_actuals
    roster,                 \* list of player dicts (get_team_roster)
    player_averages,        \* player_key -> stat map
    acquisition_dates,      \* player_key -> date
    il_placements,          \* player_key -> date
    il_removals,            \* player_key -> date
    actual_stats,           \* stat id -> value (Yahoo matchup stats)
    yahoo_remaining_override, \* {} (None) or {n}
    today_date_pst,         \* get_pacific_date()
    \* ---- locals of _project_team_with_actuals
    past_days, remaining_days, player_info,
    past_stats, past_fg_data, past_games_counted_calc,
    remaining_stats, remaining_fg_data, remaining_games_counted,
    est_past, daily_projections, daily_fg_data, final_totals,
    \* ---- locals of calculate_daily_stats
    days_list, include_il_players, day_idx, in_schedule, teams_playing,
    players_to_count, stats, fg_data, games_counted,
    \* ---- _compare_projections: the two teams' totals and the verdict
    my_total_projected, opp_total_projected,
    category_winners, predicted_score, confidence,
    \* ---- what the platform holds when a request arrives
    league_found,           \* the league is among get_user_leagues()
    platform_current_week,  \* the league's current week
    playoff_start_week,     \* {} (no playoffs) or {w}
    my_team_found,          \* get_my_team() finds the user's team
    matchup,                \* what get_matchup() returns
    scoreboard,             \* what get_league_scoreboard() returns
    weekly_sched,           \* what get_team_weekly_schedule() returns
    \* ---- the request and the response
    route, week_arg,        \* week_arg: {} (no ?week=) or {w}
    requested_week,         \* the week handed to the predictor ({} is None)
    current_week, week_num, \* predict_matchup's current_week ({} is None), week_num
    outcome, rendered,
    is_past_week, initial_my_projected, initial_opponent_projected,
    predictions,
    \* ---- the loop body that builds one player_info entry
    injury_factor,          \* the local injury_factor (lines 914-918)
    \* ---- app.py: the background cache warm-up
    warm_lock,              \* _warm_lock is held
    warm_pc,                \* thread -> position in _warm_league_caches
    warm_leagues,           \* thread -> len(leagues) of the call
    warm_idx,               \* thread -> leagues handled by the call so far
    \* ---- predictor.py: the prediction cache and the requests that use it
    prediction_cache,       \* _prediction_cache: key -> [data, expires]
    now,                    \* datetime.now(), in seconds
    roster_version,         \* the rosters the platform holds
    cache_req,              \* the request being served: kind, league, week
    cache_key,              \* its cache_key
    cached,                 \* what _get_prediction_cached returned ({} is None)
    returned,               \* what the request returned ({}: nothing yet, or raised)
    fetched,                \* rosters were fetched and the simulation was run
    cache_outcome,          \* how the request ended
    \* ---- predict_all_matchups: the parallel roster fetch and the matchup loop
    batch_matchups,         \* matchups: the team keys of each matchup
    fetch_fails,            \* the teams whose get_team_roster raises
    fetch_state,            \* team -> "submitted", "finished", "collected"
    collected_order,        \* the teams in the order as_completed yielded them
    all_rosters,            \* all_rosters: team -> roster
    batch_idx,              \* matchups handled by the prediction loop
    batch_predictions,      \* predictions
    \* ---- the schedule and the clock the predictor reads
    full_schedule,          \* get_full_nba_schedule(): day -> teams with a game
    clock,                  \* the server's clock and the season it is in
    \* ---- two threads inside _get_prediction_cached
    lookup_pc,              \* thread -> position in _get_prediction_cached
    lookup_result,          \* thread -> what its call returned or raised
    \* ---- the simulator's results for the two teams of a pairing
    day_totals,             \* team -> what calculate_daily_stats returned
    simulated               \* team -> total_projected

inputVars  == <<roster, player_averages, acquisition_dates, il_placements,
                il_removals>>
blendIn    == <<actual_stats, yahoo_remaining_override>>
splitVars  == <<today_date_pst, past_days, remaining_days>>
resultVars == <<past_stats, past_fg_data, past_games_counted_calc,
                remaining_stats, remaining_fg_data, remaining_games_counted>>
blendVars  == <<est_past, daily_projections, daily_fg_data, final_totals>>
loopVars   == <<days_list, include_il_players, day_idx, in_schedule,
                teams_playing, players_to_count, stats, fg_data,
                games_counted>>
projectionVars == <<inputVars, blendIn, splitVars, player_info, resultVars,
                    blendVars, loopVars>>
compareVars == <<my_total_projected, opp_total_projected, category_winners,
                 predicted_score, confidence>>
platformVars == <<league_found, platform_current_week, playoff_start_week,
                  my_team_found, matchup, scoreboard, weekly_sched>>
requestVars == <<route, week_arg, requested_week, current_week, week_num, outcome, rendered,
                 is_past_week, initial_my_projected,
                 initial_opponent_projected, predictions>>
injuryVars == <<injury_factor>>
warmVars == <<warm_lock, warm_pc, warm_leagues, warm_idx>>
cacheVars == <<prediction_cache, now, roster_version, cache_req, cache_key,
               cached, returned, fetched, cache_outcome>>
batchVars == <<batch_matchups, fetch_fails, fetch_state, collected_order,
               all_rosters, batch_idx, batch_predictions>>
scheduleVars == <<full_schedule, clock>>
lookupVars == <<lookup_pc, lookup_result>>
pairVars == <<day_totals, simulated>>
lateVars == <<scheduleVars, lookupVars, pairVars>>
auxVars == <<injuryVars, warmVars, cacheVars, batchVars, lateVars>>
coreVars == <<projectionVars, compareVars, platformVars, requestVars>>
outerVars == <<compareVars, platformVars, requestVars, auxVars>>
vars == <<pc, projectionVars, outerVars>>

---------------------------------------------------------------------------
(* Bounds of the model *)

WarmThreads == 3    \* threads that can call _warm_league_caches: 1 .. WarmThreads
MaxLeagues == 2     \* the user's leagues: 0 .. MaxLeagues
MaxTicks == 3       \* the clock runs from 0 to MaxTicks half-lives of a cache entry
MaxVersion == 1     \* the platform's rosters change at most this many times
MaxFailing == 1     \* roster fetches that fail in one batch: 0 .. MaxFailing
NDays == 3          \* days in the requested week: 1 .. NDays
ExtraPlayers == 1   \* the largest roster holds MAX_DAILY_STARTERS + ExtraPlayers + 1 players

---------------------------------------------------------------------------
(* Exact rational arithmetic standing for the program's floats *)

Abs(x) == IF x < 0 THEN -x ELSE x

RECURSIVE GCD(_, _)
GCD(a, b) == IF b = 0 THEN a ELSE GCD(b, a % b)

Rat(n, d) ==
    LET g == GCD(Abs(n), Abs(d))
        s == IF d < 0 THEN -1 ELSE 1
    IN  <<(s * n) \div g, (s * d) \div g>>

Int2R(i)   == <<i, 1>>
Zero       == <<0, 1>>
(* Common factors are taken out before multiplying, to keep the
   intermediate products small *)
RAdd(a, b) ==
    IF a[1] = 0 THEN b
    ELSE IF b[1] = 0 THEN a
    ELSE LET g == GCD(a[2], b[2])
         IN  Rat(a[1] * (b[2] \div g) + b[1] * (a[2] \div g),
                 (a[2] \div g) * b[2])
RNeg(a)    == <<-a[1], a[2]>>
RSub(a, b) == RAdd(a, RNeg(b))
RMul(a, b) ==
    LET x == Rat(a[1], b[2])
        y == Rat(b[1], a[2])
    IN  <<x[1] * y[1], x[2] * y[2]>>
RDiv(a, b) == RMul(a, Rat(b[2], b[1]))
RAbs(a)    == <<Abs(a[1]), a[2]>>
RLt(a, b)  ==
    LET g == GCD(a[2], b[2])
    IN  a[1] * (b[2] \div g) < b[1] * (a[2] \div g)
RGt(a, b)  == RLt(b, a)
RLe(a, b)  == ~RLt(b, a)
RMin(a, b) == IF RLt(b, a) THEN b ELSE a

Min(a, b) == IF a < b THEN a ELSE b

(* d.get(k) or default *)
GetOr(d, k, default) ==
    IF k \in DOMAIN d /\ d[k] # Zero THEN d[k] ELSE default

(* d.get(k) or d.get(int(k)): a value, or None when absent or falsy *)
Truthy(d, k) == k \in DOMAIN d /\ d[k] # Zero

EmptyDict == [k \in {} |-> Zero]

---------------------------------------------------------------------------
(* Configuration of src/predictor.py and src/config.py *)

INACTIVE_POSITIONS == {"IL", "IL+"}
BENCH_POSITION == "BN"
MAX_DAILY_STARTERS == 10

COUNTING_STATS == {"3PTM", "PTS", "REB", "AST", "STL", "BLK", "TO"}
RATE_STATS == {"FG%", "FT%"}
CATEGORIES == RATE_STATS \cup COUNTING_STATS
NEGATIVE_CATEGORIES == {"TO"}

STAT_CATEGORIES ==
    [c \in CATEGORIES |->
        CASE c = "FG%"  -> "5"
          [] c = "FT%"  -> "8"
          [] c = "3PTM" -> "10"
          [] c = "PTS"  -> "12"
          [] c = "REB"  -> "15"
          [] c = "AST"  -> "16"
          [] c = "STL"  -> "17"
          [] c = "BLK"  -> "18"
          [] c = "TO"   -> "19"]

INJURY_COUNT ==
    [s \in {"Probable", "P", "Questionable", "Q", "GTD", "DTD", "", "Healthy"} |->
        CASE s \in {"Probable", "P"}          -> Rat(85, 100)
          [] s \in {"Questionable", "Q", "GTD"} -> Rat(45, 100)
          [] s = "DTD"                        -> Rat(65, 100)
          [] OTHER                            -> Int2R(1)]

INJURY_SKIP == {"Doubtful", "D", "Out", "O", "INJ", "SUSP", "IL", "IL+"}

(* str.strip() on the status strings the model uses *)
Strip(s) ==
    CASE s = " Q"  -> "Q"
      [] s = "O "  -> "O"
      [] s = " Out " -> "Out"
      [] s = "GTD "  -> "GTD"
      [] s = " "     -> ""
      [] OTHER     -> s

(* A status the tables do not hold counted as out *)
get_injury_factor_fail_closed(status) ==
    LET s == Strip(status)
    IN  IF s \in INJURY_SKIP THEN Zero
        ELSE IF s \in DOMAIN INJURY_COUNT THEN INJURY_COUNT[s]
        ELSE Zero

get_injury_factor(status) ==
    LET s == Strip(status)
    IN  IF s \in INJURY_SKIP THEN Zero
        ELSE IF s \in DOMAIN INJURY_COUNT THEN INJURY_COUNT[s]
        ELSE Int2R(1)

(* NBASchedule._normalize_team_abbr *)
normalize_team_abbr(abbr) ==
    CASE abbr = "GS"  -> "GSW"
      [] abbr = "NO"  -> "NOP"
      [] abbr = "NY"  -> "NYK"
      [] abbr = "PHX" -> "PHO"
      [] abbr = "SA"  -> "SAS"
      [] OTHER        -> abbr

---------------------------------------------------------------------------
(* Input data the model draws from *)

(* Per-game averages as convert_to_yahoo_stat_ids builds them *)
BBRefAverages ==
    ("0" :> Int2R(50)) @@ ("5" :> Rat(1, 2)) @@ ("8" :> Rat(3, 4)) @@
    ("10" :> Int2R(2)) @@ ("12" :> Int2R(21)) @@ ("15" :> Int2R(5)) @@
    ("16" :> Int2R(4)) @@ ("17" :> Int2R(1)) @@ ("18" :> Int2R(1)) @@
    ("19" :> Int2R(2)) @@ ("_is_average" :> TRUE)

(* Season totals over two games as the Yahoo fallback gives them,
   with made/attempted field goals and a percentage above 1 *)
YahooSeasonTotals ==
    ("0" :> Int2R(2)) @@ ("3" :> Int2R(20)) @@ ("4" :> Int2R(12)) @@
    ("5" :> Int2R(60)) @@ ("8" :> Int2R(80)) @@
    ("10" :> Int2R(6)) @@ ("12" :> Int2R(60)) @@ ("15" :> Int2R(14)) @@
    ("16" :> Int2R(10)) @@ ("17" :> Int2R(4)) @@ ("18" :> Int2R(2)) @@
    ("19" :> Int2R(6))

Teams == {"BOS", "GS", "LAL"}
Positions == {"PG", "BN", "IL"}
Statuses == {"", " Q", "O "}

(* The entries get_full_nba_schedule() can hold for a day: the teams with
   a game, or nothing at all (the day is not a key of the schedule). *)
DayEntries == {{}, {"BOS", "GSW"}}

Days == 1 .. NDays

Player(key, team, pos, status) ==
    [player_key |-> key, team |-> team, roster_position |-> pos,
     status |-> status, stats |-> EmptyDict]


Variation == 1      \* the varied player differs from the default player in at most this many attributes

(* The roster: one varied player, then the default players, then a last
   player on season totals.  player_key is the position in the roster. *)
DefaultPlayer(key) == Player(key, "BOS", "PG", "")

FillCounts == {0, MAX_DAILY_STARTERS + ExtraPlayers - 1}

MakeRoster(first, nFill) ==
    <<first>> \o [i \in 1 .. nFill |-> DefaultPlayer(i + 1)]
              \o <<DefaultPlayer(nFill + 2)>>

(* A stat map that holds games played and rebounds and nothing else, as the
   stats embedded in a roster entry can be *)
RosterStatsPartial ==
    ("0" :> Int2R(10)) @@ ("15" :> Int2R(80))

AverageChoices == {"bbref", "yahoo", "partial", "none"}

MakeAverages(choice, nFill) ==
    LET rest == [k \in 2 .. nFill + 2 |->
                    IF k = nFill + 2 THEN YahooSeasonTotals ELSE BBRefAverages]
    IN  CASE choice = "bbref" -> (1 :> BBRefAverages) @@ rest
          [] choice = "yahoo" -> (1 :> YahooSeasonTotals) @@ rest
          [] choice = "partial" -> (1 :> RosterStatsPartial) @@ rest
          [] OTHER            -> rest

NoDates == [k \in {} |-> 0]
AcquisitionChoices == {NoDates, (1 :> 3)}
(* <<il_placements, il_removals>> *)
ILChoices == {<<NoDates, NoDates>>, <<(1 :> 2), NoDates>>, <<(1 :> 1), (1 :> 3)>>}

B2N(b) == IF b THEN 1 ELSE 0

---------------------------------------------------------------------------
(* _project_team_with_actuals, lines 884-946: the split of the week and
   the player_info list *)

SelectDays(P(_)) ==
    LET RECURSIVE Upto(_)
        Upto(d) == IF d = 0 THEN <<>>
                   ELSE IF P(d) THEN Append(Upto(d - 1), d) ELSE Upto(d - 1)
    IN  Upto(NDays)

PastDays(today)      == LET P(d) == d < today IN SelectDays(P)
RemainingDays(today) == LET P(d) == ~(d < today) IN SelectDays(P)

PlayerInfo(player) ==
    LET roster_position == player.roster_position
        is_on_il == roster_position \in INACTIVE_POSITIONS
        key == player.player_key
    IN  [player_key |-> key,
         team_abbr |-> player.team,
         normalized_team |-> IF player.team # "" THEN normalize_team_abbr(player.team) ELSE "",
         roster_position |-> roster_position,
         status |-> player.status,
         injury_factor |-> IF is_on_il THEN Zero ELSE get_injury_factor(player.status),
         is_on_il |-> is_on_il,
         avg_stats |-> IF key \in DOMAIN player_averages
                       THEN player_averages[key] ELSE player.stats,
         games_counted |-> 0,
         acquisition_date |-> IF key \in DOMAIN acquisition_dates
                              THEN {acquisition_dates[key]} ELSE {}]

---------------------------------------------------------------------------
(* calculate_daily_stats, lines 949-1163 *)

ZeroStats == [c \in COUNTING_STATS |-> Zero]
ZeroFG == [k \in {"fgm", "fga", "ftm", "fta"} |-> Zero]

(* A placement that takes effect only the day after it is recorded *)
was_on_il_after_placement_day(p, day) ==
    /\ p.player_key \in DOMAIN il_placements
    /\ day > il_placements[p.player_key]
    /\ (p.player_key \in DOMAIN il_removals => day < il_removals[p.player_key])

(* lines 1000-1013 *)
was_on_il_this_day(p, day) ==
    /\ p.player_key \in DOMAIN il_placements
    /\ day >= il_placements[p.player_key]
    /\ (p.player_key \in DOMAIN il_removals => day < il_removals[p.player_key])

(* The filters of a past day applied to every day *)
PassesFilters_il_included_always(p, day, include_il, teams) ==
    /\ ~was_on_il_this_day(p, day)
    /\ ~(\E a \in p.acquisition_date : day < a)
    /\ (p.team_abbr \in teams \/ p.normalized_team \in teams)
    /\ (p.injury_factor = Zero => p.roster_position \in INACTIVE_POSITIONS)

(* The filters without the acquisition-date test *)
PassesFilters_ignoring_acquisition(p, day, include_il, teams) ==
    /\ ~was_on_il_this_day(p, day)
    /\ ~(p.injury_factor = Zero
            /\ ~(include_il /\ p.roster_position \in INACTIVE_POSITIONS))
    /\ ~(~include_il /\ p.roster_position \in INACTIVE_POSITIONS)
    /\ (p.team_abbr \in teams \/ p.normalized_team \in teams)

(* lines 1015-1036: the player passes every filter of the day *)
PassesFilters(p, day, include_il, teams) ==
    /\ ~was_on_il_this_day(p, day)
    /\ ~(p.injury_factor = Zero
            /\ ~(include_il /\ p.roster_position \in INACTIVE_POSITIONS))
    /\ ~(~include_il /\ p.roster_position \in INACTIVE_POSITIONS)
    /\ ~(\E a \in p.acquisition_date : day < a)
    /\ (p.team_abbr \in teams \/ p.normalized_team \in teams)

Indices(info, P(_)) ==
    LET RECURSIVE Upto(_)
        Upto(k) == IF k = 0 THEN <<>>
                   ELSE IF P(k) THEN Append(Upto(k - 1), k) ELSE Upto(k - 1)
    IN  Upto(Len(info))

(* lines 993-1042 *)
eligible_players(info, day, include_il, teams) ==
    LET P(k) == /\ PassesFilters(info[k], day, include_il, teams)
                /\ info[k].roster_position # BENCH_POSITION
    IN  Indices(info, P)

bench_players(info, day, include_il, teams) ==
    LET P(k) == /\ PassesFilters(info[k], day, include_il, teams)
                /\ info[k].roster_position = BENCH_POSITION
    IN  Indices(info, P)

(* Every player with a game, without the daily cap *)
PlayersToCount_uncapped(info, day, include_il, teams) ==
    eligible_players(info, day, include_il, teams)
        \o bench_players(info, day, include_il, teams)

(* The first players with a game in roster order, bench or not *)
PlayersToCount_roster_order(info, day, include_il, teams) ==
    LET P(k) == PassesFilters(info[k], day, include_il, teams)
        all_players_with_games == Indices(info, P)
    IN  SubSeq(all_players_with_games, 1,
               Min(MAX_DAILY_STARTERS, Len(all_players_with_games)))

(* lines 1048-1049 *)
PlayersToCount(info, day, include_il, teams) ==
    LET all_players_with_games ==
            eligible_players(info, day, include_il, teams)
                \o bench_players(info, day, include_il, teams)
    IN  SubSeq(all_players_with_games, 1,
               Min(MAX_DAILY_STARTERS, Len(all_players_with_games)))

(* lines 1073-1081 *)
GamesPlayed(avg_stats) ==
    LET gp == GetOr(avg_stats, "0", Int2R(1))
    IN  IF RLe(gp, Zero) THEN Int2R(1) ELSE gp

IsAverage(avg_stats) ==
    "_is_average" \in DOMAIN avg_stats /\ avg_stats["_is_average"]

PerGameDivisor(avg_stats) ==
    IF IsAverage(avg_stats) THEN Int2R(1) ELSE GamesPlayed(avg_stats)

(* lines 1084-1097: one game's worth of a counting category *)
PlayerCounting(p, cat) ==
    LET raw_value == GetOr(p.avg_stats, STAT_CATEGORIES[cat], Zero)
        per_game == IF IsAverage(p.avg_stats) THEN raw_value
                    ELSE RDiv(raw_value, GamesPlayed(p.avg_stats))
    IN  RMul(per_game, p.injury_factor)

(* lines 1127-1131 *)
PointsPerGame(avg_stats) ==
    RDiv(GetOr(avg_stats, "12", Zero), PerGameDivisor(avg_stats))

(* lines 1132-1138 and 1148-1154 *)
ShootingPct(avg_stats, id, default) ==
    LET pct == GetOr(avg_stats, id, default)
    IN  IF RGt(pct, Int2R(1)) THEN RDiv(pct, Int2R(100)) ELSE pct

(* lines 1101-1161: one game's worth of makes and attempts *)
PlayerShooting(p) ==
    LET a == p.avg_stats
        div == PerGameDivisor(a)
        pts == PointsPerGame(a)
        haveFG == Truthy(a, "3") /\ Truthy(a, "4")
        haveFT == Truthy(a, "6") /\ Truthy(a, "7")
        fga == IF haveFG THEN RDiv(a["3"], div)
               ELSE IF RGt(pts, Zero) THEN RDiv(pts, Rat(21, 10)) ELSE Int2R(8)
        fgm == IF haveFG THEN RDiv(a["4"], div)
               ELSE RMul(fga, ShootingPct(a, "5", Rat(45, 100)))
        fta == IF haveFT THEN RDiv(a["6"], div)
               ELSE IF RGt(pts, Zero) THEN RDiv(pts, Int2R(6)) ELSE Int2R(3)
        ftm == IF haveFT THEN RDiv(a["7"], div)
               ELSE RMul(fta, ShootingPct(a, "8", Rat(75, 100)))
    IN  [fgm |-> RMul(fgm, p.injury_factor), fga |-> RMul(fga, p.injury_factor),
         ftm |-> RMul(ftm, p.injury_factor), fta |-> RMul(fta, p.injury_factor)]

(* lines 1068-1161 summed over the players counted on one day *)
(* The sum of F over a set of indices, added by halves of the span of the
   set *)
SumOver(S, F(_)) ==
    LET RECURSIVE Sum(_, _)
        Sum(lo, hi) ==
            IF lo = hi THEN (IF lo \in S THEN F(lo) ELSE Zero)
            ELSE RAdd(Sum(lo, (lo + hi) \div 2), Sum((lo + hi) \div 2 + 1, hi))
    IN  IF S = {} THEN Zero
        ELSE Sum(CHOOSE x \in S : \A y \in S : x <= y,
                 CHOOSE x \in S : \A y \in S : y <= x)

DayStats(info, counted) ==
    [c \in COUNTING_STATS |->
        LET one(k) == PlayerCounting(info[counted[k]], c)
        IN  SumOver(1 .. Len(counted), one)]

DayShooting(info, counted) ==
    [f \in {"fgm", "fga", "ftm", "fta"} |->
        LET one(k) == PlayerShooting(info[counted[k]])[f]
        IN  SumOver(1 .. Len(counted), one)]

AddMaps(m1, m2) == [k \in DOMAIN m1 |-> RAdd(m1[k], m2[k])]

InSeq(x, seq) == \E i \in 1 .. Len(seq) : seq[i] = x

---------------------------------------------------------------------------
(* The state before _project_team_with_actuals is entered *)

(* No comparison made and no request served yet *)
NoTotals == [c \in CATEGORIES |-> Zero]
NoVerdict == [c \in {} |-> "tie"]
NoMatchup == [found |-> FALSE]

CompareIdle ==
    /\ my_total_projected = NoTotals /\ opp_total_projected = NoTotals
    /\ category_winners = NoVerdict /\ predicted_score = <<0, 0>>
    /\ confidence = EmptyDict

PlatformIdle ==
    /\ league_found = FALSE /\ platform_current_week = 0
    /\ playoff_start_week = {} /\ my_team_found = FALSE
    /\ matchup = NoMatchup /\ scoreboard = <<>> /\ weekly_sched = <<>>

RequestIdle ==
    /\ route = "" /\ week_arg = {} /\ requested_week = {}
    /\ current_week = {} /\ week_num = 0
    /\ outcome = "" /\ rendered = ""
    /\ is_past_week = FALSE
    /\ initial_my_projected = NoTotals /\ initial_opponent_projected = NoTotals
    /\ predictions = <<>>

InjuryIdle == injury_factor = Zero

WarmIdle ==
    /\ warm_lock = FALSE
    /\ warm_pc = [t \in 1 .. WarmThreads |-> "idle"]
    /\ warm_leagues = [t \in 1 .. WarmThreads |-> 0]
    /\ warm_idx = [t \in 1 .. WarmThreads |-> 0]

NoRequest == [kind |-> "", league |-> "", week |-> 0]

CacheRequestIdle ==
    /\ cache_req = NoRequest /\ cache_key = ""
    /\ cached = {} /\ returned = {} /\ fetched = FALSE /\ cache_outcome = ""

CacheIdle ==
    /\ prediction_cache = <<>> /\ now = 0 /\ roster_version = 0
    /\ CacheRequestIdle

BatchIdle ==
    /\ batch_matchups = <<>> /\ fetch_fails = {}
    /\ fetch_state = <<>> /\ collected_order = <<>>
    /\ all_rosters = <<>> /\ batch_idx = 0 /\ batch_predictions = <<>>

NoSchedule == [d \in {} |-> {}]
NoClock == [now |-> 0, utc_offset |-> 0, month |-> 1, pacific_dst |-> FALSE]

ScheduleIdle == full_schedule = NoSchedule /\ clock = NoClock

LookupIdle ==
    /\ lookup_pc = [t \in {} |-> "idle"]
    /\ lookup_result = [t \in {} |-> "none"]

PairIdle == day_totals = <<>> /\ simulated = <<>>

LateIdle == ScheduleIdle /\ LookupIdle /\ PairIdle

AuxIdle == InjuryIdle /\ WarmIdle /\ CacheIdle /\ BatchIdle /\ LateIdle

LocalsInit ==
    /\ today_date_pst = 0
    /\ past_days = <<>> /\ remaining_days = <<>> /\ player_info = <<>>
    /\ past_stats = ZeroStats /\ past_fg_data = ZeroFG
    /\ past_games_counted_calc = 0
    /\ remaining_stats = ZeroStats /\ remaining_fg_data = ZeroFG
    /\ remaining_games_counted = 0
    /\ est_past = ZeroFG /\ daily_projections = ZeroStats
    /\ daily_fg_data = ZeroFG
    /\ final_totals = [c \in CATEGORIES |-> Zero]
    /\ days_list = <<>> /\ include_il_players = FALSE /\ day_idx = 0
    /\ in_schedule = FALSE /\ teams_playing = {}
    /\ players_to_count = <<>> /\ stats = ZeroStats /\ fg_data = ZeroFG
    /\ games_counted = 0
    /\ actual_stats = EmptyDict /\ yahoo_remaining_override = {}

(* The varied player differs from the default player in at most Variation
   attributes; the IL history of a player in an IL slot is not counted as
   one (get_il_history_for_team records a placement for such players). *)
RosterInputs ==
    \E team \in Teams, pos \in Positions, status \in Statuses,
       avg \in AverageChoices, acq \in AcquisitionChoices,
       il \in ILChoices, nFill \in FillCounts :
       /\ B2N(team # "BOS") + B2N(pos # "PG") + B2N(status # "")
            + B2N(avg # "bbref") + B2N(acq # NoDates)
            + B2N(il # <<NoDates, NoDates>> /\ pos \notin INACTIVE_POSITIONS)
            <= Variation
       /\ roster = MakeRoster(Player(1, team, pos, status), nFill)
       /\ player_averages = MakeAverages(avg, nFill)
       /\ acquisition_dates = acq
       /\ il_placements = il[1]
       /\ il_removals = il[2]

Init ==
    /\ pc = "start"
    /\ RosterInputs
    /\ LocalsInit
    /\ CompareIdle /\ PlatformIdle /\ RequestIdle /\ AuxIdle

---------------------------------------------------------------------------
(* _project_team_with_actuals *)

(* lines 839-946: read today's Pacific date, split the week, build player_info *)
ProjectStart ==
    /\ pc = "start"
    /\ \E today \in 1 .. NDays + 1 :
          /\ today_date_pst' = today
          /\ past_days' = PastDays(today)
          /\ remaining_days' = RemainingDays(today)
    /\ player_info' = [i \in 1 .. Len(roster) |-> PlayerInfo(roster[i])]
    /\ pc' = "call_past"
    /\ UNCHANGED <<inputVars, blendIn, resultVars, blendVars, loopVars>>
    /\ UNCHANGED outerVars

(* lines 964-973: entry of calculate_daily_stats *)
EnterDaily(days, include_il) ==
    /\ days_list' = days
    /\ include_il_players' = include_il
    /\ day_idx' = 0
    /\ in_schedule' = FALSE
    /\ teams_playing' = {}
    /\ players_to_count' = <<>>
    /\ stats' = ZeroStats
    /\ fg_data' = ZeroFG
    /\ games_counted' = 0

(* lines 1166-1171 *)
CallPast ==
    /\ pc = "call_past"
    /\ EnterDaily(past_days, TRUE)
    /\ pc' = "loop"
    /\ UNCHANGED <<inputVars, blendIn, splitVars, player_info, resultVars, blendVars>>
    /\ UNCHANGED outerVars

(* lines 1180-1185 *)
CallRemaining ==
    /\ pc = "call_remaining"
    /\ EnterDaily(remaining_days, FALSE)
    /\ pc' = "loop"
    /\ UNCHANGED <<inputVars, blendIn, splitVars, player_info, resultVars, blendVars>>
    /\ UNCHANGED outerVars

NextDay == days_list[day_idx + 1]

(* A day without schedule data treated as a day on which one game is assumed *)
DayNoData_assumed_game ==
    /\ pc = "loop" /\ day_idx < Len(days_list)
    /\ day_idx' = day_idx + 1
    /\ in_schedule' = FALSE
    /\ teams_playing' = {}
    /\ players_to_count' = <<>>
    /\ games_counted' = games_counted + 1
    /\ UNCHANGED <<pc, inputVars, blendIn, splitVars, player_info, resultVars,
                   blendVars, days_list, include_il_players, stats, fg_data>>
    /\ UNCHANGED outerVars

(* lines 980-982: the day is not a key of the schedule.
   players_to_count stands for the players counted on the day just handled. *)
DayNoData ==
    /\ pc = "loop" /\ day_idx < Len(days_list)
    /\ day_idx' = day_idx + 1
    /\ in_schedule' = FALSE
    /\ teams_playing' = {}
    /\ players_to_count' = <<>>
    /\ UNCHANGED <<pc, inputVars, blendIn, splitVars, player_info, resultVars,
                   blendVars, days_list, include_il_players, stats, fg_data,
                   games_counted>>
    /\ UNCHANGED outerVars

(* lines 985-990: the day is in the schedule and lists no team *)
DayNoGames ==
    /\ pc = "loop" /\ day_idx < Len(days_list)
    /\ day_idx' = day_idx + 1
    /\ in_schedule' = TRUE
    /\ teams_playing' = {}
    /\ players_to_count' = <<>>
    /\ UNCHANGED <<pc, inputVars, blendIn, splitVars, player_info, resultVars,
                   blendVars, days_list, include_il_players, stats, fg_data,
                   games_counted>>
    /\ UNCHANGED outerVars

(* lines 992-1161: a day with games *)
DayWithGames ==
    /\ pc = "loop" /\ day_idx < Len(days_list)
    /\ \E teams \in DayEntries \ {{}} :
        LET counted == PlayersToCount(player_info, NextDay, include_il_players, teams)
        IN  /\ teams_playing' = teams
            /\ players_to_count' = counted
            /\ games_counted' = games_counted + Len(counted)
            /\ player_info' =
                 [i \in 1 .. Len(player_info) |->
                    IF InSeq(i, counted)
                    THEN [player_info[i] EXCEPT !.games_counted = @ + 1]
                    ELSE player_info[i]]
            /\ stats' = AddMaps(stats, DayStats(player_info, counted))
            /\ fg_data' = AddMaps(fg_data, DayShooting(player_info, counted))
    /\ day_idx' = day_idx + 1
    /\ in_schedule' = TRUE
    /\ UNCHANGED <<pc, inputVars, blendIn, splitVars, resultVars, blendVars,
                   days_list, include_il_players>>
    /\ UNCHANGED outerVars

(* line 1163: the call returns and its locals are gone *)
LeaveDaily ==
    /\ days_list' = <<>>
    /\ include_il_players' = FALSE
    /\ day_idx' = 0
    /\ in_schedule' = FALSE
    /\ teams_playing' = {}
    /\ players_to_count' = <<>>
    /\ stats' = ZeroStats
    /\ fg_data' = ZeroFG
    /\ games_counted' = 0

(* line 1163, received at lines 1166-1171 *)
ReturnPast ==
    /\ pc = "loop" /\ day_idx = Len(days_list) /\ include_il_players
    /\ past_stats' = stats
    /\ past_fg_data' = fg_data
    /\ past_games_counted_calc' = games_counted
    /\ pc' = "call_remaining"
    /\ LeaveDaily
    /\ UNCHANGED <<inputVars, blendIn, splitVars, player_info, blendVars,
                   remaining_stats, remaining_fg_data, remaining_games_counted>>
    /\ UNCHANGED outerVars

(* line 1163, received at lines 1180-1185 *)
ReturnRemaining ==
    /\ pc = "loop" /\ day_idx = Len(days_list) /\ ~include_il_players
    /\ remaining_stats' = stats
    /\ remaining_fg_data' = fg_data
    /\ remaining_games_counted' = games_counted
    /\ pc' = "scale"
    /\ LeaveDaily
    /\ UNCHANGED <<inputVars, blendIn, splitVars, player_info, blendVars,
                   past_stats, past_fg_data, past_games_counted_calc>>
    /\ UNCHANGED outerVars

---------------------------------------------------------------------------
(* _project_team_with_actuals, lines 1241-1373: scaling, blending, totals *)

(* yahoo_remaining_override: {} is None *)
OverrideChoices == {{}, {4}}

(* The week's accumulated matchup stats as get_matchup parses them: none,
   a week in progress with decimal percentages, one with percentages
   above 1 and no turnovers entry, and a week with nothing scored yet. *)
ActualInProgress ==
    ("0" :> Int2R(12)) @@ ("5" :> Rat(1, 2)) @@ ("8" :> Rat(4, 5)) @@
    ("10" :> Int2R(10)) @@ ("12" :> Int2R(120)) @@ ("15" :> Int2R(40)) @@
    ("16" :> Int2R(30)) @@ ("17" :> Int2R(8)) @@ ("18" :> Int2R(5)) @@
    ("19" :> Int2R(14))

ActualPercentForm ==
    ("0" :> Int2R(8)) @@ ("5" :> Int2R(50)) @@ ("8" :> Int2R(75)) @@
    ("10" :> Int2R(7)) @@ ("12" :> Int2R(84)) @@ ("15" :> Int2R(33)) @@
    ("16" :> Int2R(21)) @@ ("17" :> Int2R(6)) @@ ("18" :> Int2R(3))

ActualNothingYet ==
    [id \in {"0", "5", "8", "10", "12", "15", "16", "17", "18", "19"} |-> Zero]

ActualChoices == {EmptyDict, ActualInProgress, ActualPercentForm, ActualNothingYet}

ScaleMap(m, scale) == [k \in DOMAIN m |-> RMul(m[k], scale)]

(* lines 1242-1245 *)
ScaleRemainingFactor(override, remaining_games) ==
    IF override # {} /\ remaining_games > 0
    THEN Rat(CHOOSE n \in override : TRUE, remaining_games)
    ELSE Int2R(1)

(* lines 1241-1251 *)
ScaleRemaining ==
    /\ pc = "scale"
    /\ \E override \in OverrideChoices :
        LET scale_remaining == ScaleRemainingFactor(override, remaining_games_counted)
        IN  /\ yahoo_remaining_override' = override
            /\ remaining_stats' = IF scale_remaining # Int2R(1)
                                  THEN ScaleMap(remaining_stats, scale_remaining)
                                  ELSE remaining_stats
            /\ remaining_fg_data' = IF scale_remaining # Int2R(1)
                                    THEN ScaleMap(remaining_fg_data, scale_remaining)
                                    ELSE remaining_fg_data
    /\ pc' = "blend"
    /\ UNCHANGED <<inputVars, actual_stats, splitVars, player_info, blendVars,
                   loopVars, past_stats, past_fg_data, past_games_counted_calc,
                   remaining_games_counted>>
    /\ UNCHANGED outerVars

(* line 1255 *)
UseActuals(actual, past) == actual # EmptyDict /\ Len(past) > 0

(* lines 1259-1266 *)
ActualCounting(actual) ==
    [cat \in {c \in COUNTING_STATS : STAT_CATEGORIES[c] \in DOMAIN actual} |->
        actual[STAT_CATEGORIES[cat]]]

(* Actual totals added on top of the whole simulated week *)
CombineActual_keeping_past(actual, remaining) ==
    LET actual_counting == ActualCounting(actual)
    IN  [cat \in COUNTING_STATS |->
            RAdd(IF cat \in DOMAIN actual_counting THEN actual_counting[cat] ELSE Zero,
                 RAdd(past_stats[cat], remaining[cat]))]

(* lines 1271-1275 *)
CombineActual(actual, remaining) ==
    LET actual_counting == ActualCounting(actual)
    IN  [cat \in COUNTING_STATS |->
            RAdd(IF cat \in DOMAIN actual_counting THEN actual_counting[cat] ELSE Zero,
                 remaining[cat])]

(* Only the remaining days projected *)
CombineProjected_remaining_only(past, remaining) ==
    [cat \in COUNTING_STATS |-> remaining[cat]]

(* line 1308 *)
CombineProjected(past, remaining) ==
    [cat \in COUNTING_STATS |-> RAdd(past[cat], remaining[cat])]

(* The reported percentage used as it comes, whatever its form *)
PctAsFraction_whatever_form(pct) == pct

(* lines 1283 and 1290: a value above 1 is a percentage, otherwise a fraction *)
PctAsFraction(pct) == IF RGt(pct, Int2R(1)) THEN RDiv(pct, Int2R(100)) ELSE pct

(* lines 1280-1297 *)
EstimatePast(actual, past_fg) ==
    LET actual_fg_pct == GetOr(actual, "5", Zero)
        actual_ft_pct == GetOr(actual, "8", Zero)
        actual_counting == ActualCounting(actual)
        actual_pts == IF "PTS" \in DOMAIN actual_counting
                      THEN actual_counting["PTS"] ELSE Zero
        useFG == actual_fg_pct # Zero /\ RGt(actual_pts, Zero)
        useFT == actual_ft_pct # Zero /\ RGt(actual_pts, Zero)
        est_past_fga == RDiv(actual_pts, Rat(21, 10))
        est_past_fta == RDiv(actual_pts, Int2R(6))
    IN  [fga |-> IF useFG THEN est_past_fga ELSE past_fg["fga"],
         fgm |-> IF useFG THEN RMul(est_past_fga, PctAsFraction(actual_fg_pct))
                 ELSE past_fg["fgm"],
         fta |-> IF useFT THEN est_past_fta ELSE past_fg["fta"],
         ftm |-> IF useFT THEN RMul(est_past_fta, PctAsFraction(actual_ft_pct))
                 ELSE past_fg["ftm"]]

(* lines 1299-1304 and 1309-1314 *)
CombineShooting(past_fg, remaining_fg) == AddMaps(past_fg, remaining_fg)

(* lines 1255-1304 *)
BlendActuals ==
    /\ pc = "blend"
    /\ \E actual \in ActualChoices :
        /\ UseActuals(actual, past_days)
        /\ actual_stats' = actual
        /\ daily_projections' = CombineActual(actual, remaining_stats)
        /\ est_past' = EstimatePast(actual, past_fg_data)
        /\ daily_fg_data' = CombineShooting(EstimatePast(actual, past_fg_data),
                                            remaining_fg_data)
    /\ pc' = "final"
    /\ UNCHANGED <<inputVars, yahoo_remaining_override, splitVars, player_info,
                   resultVars, loopVars, final_totals>>
    /\ UNCHANGED outerVars

(* lines 1305-1314 *)
BlendProjections ==
    /\ pc = "blend"
    /\ \E actual \in ActualChoices :
        /\ ~UseActuals(actual, past_days)
        /\ actual_stats' = actual
    /\ daily_projections' = CombineProjected(past_stats, remaining_stats)
    /\ est_past' = past_fg_data
    /\ daily_fg_data' = CombineShooting(past_fg_data, remaining_fg_data)
    /\ pc' = "final"
    /\ UNCHANGED <<inputVars, yahoo_remaining_override, splitVars, player_info,
                   resultVars, loopVars, final_totals>>
    /\ UNCHANGED outerVars

(* lines 1356-1363 *)
RateTotal(makes, attempts) ==
    IF RGt(attempts, Zero) THEN RMul(RDiv(makes, attempts), Int2R(100)) ELSE Zero

(* Percentages taken as the mean of the past and the remaining percentage *)
FinalTotals_averaging_percentages(projections, fg) ==
    [cat \in CATEGORIES |->
        IF cat \in COUNTING_STATS THEN projections[cat]
        ELSE IF cat = "FG%"
        THEN RDiv(RAdd(RateTotal(est_past["fgm"], est_past["fga"]),
                       RateTotal(remaining_fg_data["fgm"], remaining_fg_data["fga"])),
                  Int2R(2))
        ELSE RDiv(RAdd(RateTotal(est_past["ftm"], est_past["fta"]),
                       RateTotal(remaining_fg_data["ftm"], remaining_fg_data["fta"])),
                  Int2R(2))]

(* lines 1351-1363 *)
FinalTotals(projections, fg) ==
    [cat \in CATEGORIES |->
        IF cat \in COUNTING_STATS THEN projections[cat]
        ELSE IF cat = "FG%" THEN RateTotal(fg["fgm"], fg["fga"])
        ELSE RateTotal(fg["ftm"], fg["fta"])]

(* lines 1349-1373: the TeamProjection returned holds final_totals and
   remaining_games_counted *)
Finalize ==
    /\ pc = "final"
    /\ final_totals' = FinalTotals(daily_projections, daily_fg_data)
    /\ pc' = "done"
    /\ UNCHANGED <<inputVars, blendIn, splitVars, player_info, resultVars,
                   loopVars, est_past, daily_projections, daily_fg_data>>
    /\ UNCHANGED outerVars

Next ==
    \/ ProjectStart
    \/ CallPast
    \/ DayNoData
    \/ DayNoGames
    \/ DayWithGames
    \/ ReturnPast
    \/ CallRemaining
    \/ ReturnRemaining
    \/ ScaleRemaining
    \/ BlendActuals
    \/ BlendProjections
    \/ Finalize

Spec == Init /\ [][Next]_vars

---------------------------------------------------------------------------
(* _compare_projections, src/predictor.py lines 1524-1559 *)

MaxTotal == 2       \* category totals range over 0, 5, .. 5 * MaxTotal

(* Turnovers treated like every other category *)
ComparedValue_same_for_turnovers(totals, cat) ==
    IF cat \in DOMAIN totals THEN totals[cat] ELSE Zero

(* lines 1532-1537: total_projected.get(cat, 0), negated for turnovers *)
ComparedValue(totals, cat) ==
    LET v == IF cat \in DOMAIN totals THEN totals[cat] ELSE Zero
    IN  IF cat \in NEGATIVE_CATEGORIES THEN RNeg(v) ELSE v

(* lines 1539-1547 *)
CategoryWinner(my_val, opp_val) ==
    IF RGt(my_val, opp_val) THEN "my_team"
    ELSE IF RGt(opp_val, my_val) THEN "opponent"
    ELSE "tie"

(* line 1531: the categories in the order of STAT_CATEGORIES.keys() *)
CategoryOrder == <<"FG%", "FT%", "3PTM", "PTS", "REB", "AST", "STL", "BLK", "TO">>

(* A tied category counted as a win of the opponent *)
RECURSIVE WinsAfter_ties_to_opponent(_, _, _)
WinsAfter_ties_to_opponent(my, opp, n) ==
    IF n = 0 THEN <<0, 0>>
    ELSE LET prev == WinsAfter_ties_to_opponent(my, opp, n - 1)
             cat == CategoryOrder[n]
         IN  IF RGt(ComparedValue(my, cat), ComparedValue(opp, cat))
             THEN <<prev[1] + 1, prev[2]>>
             ELSE <<prev[1], prev[2] + 1>>

(* lines 1528-1547: <<my_wins, opp_wins>> after the first n categories of
   the loop *)
RECURSIVE WinsAfter(_, _, _)
WinsAfter(my, opp, n) ==
    IF n = 0 THEN <<0, 0>>
    ELSE LET prev == WinsAfter(my, opp, n - 1)
             cat == CategoryOrder[n]
             my_val == ComparedValue(my, cat)
             opp_val == ComparedValue(opp, cat)
         IN  IF RGt(my_val, opp_val) THEN <<prev[1] + 1, prev[2]>>
             ELSE IF RGt(opp_val, my_val) THEN <<prev[1], prev[2] + 1>>
             ELSE prev

RMax(a, b) == IF RLt(a, b) THEN b ELSE a

(* The difference taken relative to the larger of the two values *)
CategoryConfidence_relative_to_larger(my_val, opp_val) ==
    LET total == RAdd(RAbs(my_val), RAbs(opp_val))
    IN  IF RGt(total, Zero)
        THEN RMin(RDiv(RAbs(RSub(my_val, opp_val)),
                       RMax(RAbs(my_val), RAbs(opp_val))), Int2R(1))
        ELSE Rat(1, 2)

(* lines 1549-1555 *)
CategoryConfidence(my_val, opp_val) ==
    LET total == RAdd(RAbs(my_val), RAbs(opp_val))
    IN  IF RGt(total, Zero)
        THEN RMin(RDiv(RAbs(RSub(my_val, opp_val)), total), Int2R(1))
        ELSE Rat(1, 2)

(* lines 1527-1557 *)
compare_projections(my, opp) ==
    LET winners == [cat \in CATEGORIES |->
                       CategoryWinner(ComparedValue(my, cat), ComparedValue(opp, cat))]
    IN  [category_winners |-> winners,
         predicted_score |-> WinsAfter(my, opp, Len(CategoryOrder)),
         confidence |-> [cat \in CATEGORIES |->
                           CategoryConfidence(ComparedValue(my, cat),
                                              ComparedValue(opp, cat))]]

(* Team totals to compare: turnovers, points and the other categories
   range over the same small values *)
TotalValues == {Int2R(5 * k) : k \in 0 .. MaxTotal}

TotalsChoices ==
    {[cat \in CATEGORIES |->
         IF cat = "TO" THEN to ELSE IF cat = "PTS" THEN pts ELSE other] :
       to \in TotalValues, pts \in TotalValues, other \in TotalValues}

ProjectionIdle ==
    /\ roster = <<>> /\ player_averages = EmptyDict
    /\ acquisition_dates = NoDates /\ il_placements = NoDates
    /\ il_removals = NoDates
    /\ LocalsInit

InitCompare ==
    /\ pc = "compare"
    /\ my_total_projected \in TotalsChoices
    /\ opp_total_projected \in TotalsChoices
    /\ category_winners = NoVerdict /\ predicted_score = <<0, 0>>
    /\ confidence = EmptyDict
    /\ ProjectionIdle /\ PlatformIdle /\ RequestIdle /\ AuxIdle

ComparePair ==
    /\ pc = "compare"
    /\ LET r == compare_projections(my_total_projected, opp_total_projected)
       IN  /\ category_winners' = r.category_winners
           /\ predicted_score' = r.predicted_score
           /\ confidence' = r.confidence
    /\ pc' = "compared"
    /\ UNCHANGED <<my_total_projected, opp_total_projected, projectionVars,
                   platformVars, requestVars, auxVars>>

NextCompare == ComparePair

SpecCompare == InitCompare /\ [][NextCompare]_vars

---------------------------------------------------------------------------
(* The injury factor of one roster player: get_injury_factor (lines
   146-165) as the loop of _project_team_with_actuals calls it (lines
   907-940) *)

(* Status strings a roster entry can carry: every key of the two tables,
   long forms the tables do not hold, other spellings, padded strings *)
StatusStrings ==
    DOMAIN INJURY_COUNT \cup INJURY_SKIP \cup
    {"Game-Time-Decision", "Game Time Decision", "Day-to-Day", "Suspended",
     "Injured", "Injured-List", "NA", "out", "q", " Q", "O ", " Out ", "GTD ", " "}

SlotChoices == {"PG", "UTIL", "BN", "IL", "IL+"}

InitInjury ==
    /\ pc = "player"
    /\ \E status \in StatusStrings, pos \in SlotChoices :
          roster = <<Player(1, "BOS", pos, status)>>
    /\ player_averages = MakeAverages("bbref", 0)
    /\ acquisition_dates = NoDates /\ il_placements = NoDates
    /\ il_removals = NoDates
    /\ LocalsInit
    /\ CompareIdle /\ PlatformIdle /\ RequestIdle /\ AuxIdle

(* lines 913-914 *)
InjuryFactorCall ==
    /\ pc = "player"
    /\ injury_factor' = get_injury_factor(roster[1].status)
    /\ pc' = "factor"
    /\ UNCHANGED <<projectionVars, compareVars, platformVars, requestVars, warmVars, cacheVars, batchVars, lateVars>>

(* lines 916-940: the inactive slot overrides the factor and the entry is
   appended to player_info *)
InactiveSlotOverride ==
    /\ pc = "factor"
    /\ injury_factor' = IF roster[1].roster_position \in INACTIVE_POSITIONS
                        THEN Zero ELSE injury_factor
    /\ player_info' = <<[PlayerInfo(roster[1]) EXCEPT !.injury_factor = injury_factor']>>
    /\ pc' = "appended"
    /\ UNCHANGED <<inputVars, blendIn, splitVars, resultVars, blendVars, loopVars,
                   compareVars, platformVars, requestVars, warmVars, cacheVars, batchVars, lateVars>>

NextInjury ==
    \/ InjuryFactorCall
    \/ InactiveSlotOverride

SpecInjury == InitInjury /\ [][NextInjury]_vars

---------------------------------------------------------------------------
(* The background cache warm-up of src/app.py: _warm_league_caches (lines
   53-137), called by the refresh loop (thread 1, line 158) and run in a
   thread of its own by the dashboard and clear-cache routes (the other
   threads, lines 231, 238 and 694) *)

Threads == 1 .. WarmThreads

(* A lock that is taken whether or not it is held *)
warm_lock_acquire_unguarded(locked) == [acquired |-> TRUE, locked |-> TRUE]

(* line 63: _warm_lock.acquire(blocking=False) *)
warm_lock_acquire(locked) ==
    [acquired |-> ~locked, locked |-> TRUE]

notWarm == <<pc, coreVars, injuryVars, cacheVars, batchVars, lateVars>>

InitWarm ==
    /\ pc = "serving"
    /\ ProjectionIdle /\ CompareIdle /\ PlatformIdle /\ RequestIdle /\ AuxIdle

WarmCall(t) ==
    /\ warm_pc[t] = "idle"
    /\ \E n \in 0 .. MaxLeagues :
          warm_leagues' = [warm_leagues EXCEPT ![t] = n]
    /\ warm_pc' = [warm_pc EXCEPT ![t] = "called"]
    /\ warm_idx' = [warm_idx EXCEPT ![t] = 0]
    /\ UNCHANGED <<warm_lock, notWarm>>

(* lines 140-158: the refresh loop wakes up and calls _warm_league_caches *)
RefreshLoopWarm ==
    /\ warm_pc[1] = "idle"
    /\ WarmCall(1)

(* lines 229-238 and 692-694: a route starts a thread on _warm_league_caches *)
RouteWarm ==
    /\ \E t \in Threads \ {1} : warm_pc[t] = "idle"
    /\ \E t \in Threads \ {1} : WarmCall(t)

(* lines 59-60: nothing to warm *)
WarmNoLeagues(t) ==
    /\ warm_pc[t] = "called" /\ warm_leagues[t] = 0
    /\ warm_pc' = [warm_pc EXCEPT ![t] = "returned"]
    /\ UNCHANGED <<warm_lock, warm_leagues, warm_idx, notWarm>>

(* lines 63-65: the lock is tried once; a held lock makes the call return *)
WarmTryLock(t) ==
    /\ warm_pc[t] = "called" /\ warm_leagues[t] > 0
    /\ LET r == warm_lock_acquire(warm_lock)
       IN  /\ warm_lock' = r.locked
           /\ warm_pc' = [warm_pc EXCEPT ![t] = IF r.acquired THEN "warming"
                                                ELSE "skipped"]
    /\ UNCHANGED <<warm_leagues, warm_idx, notWarm>>

(* lines 69-130: one league is warmed; an error inside is caught and the
   loop goes on with the next league *)
WarmLeague(t) ==
    /\ warm_pc[t] = "warming" /\ warm_idx[t] < warm_leagues[t]
    /\ warm_idx' = [warm_idx EXCEPT ![t] = @ + 1]
    /\ UNCHANGED <<warm_lock, warm_pc, warm_leagues, notWarm>>

(* An error that leaves the function without passing the finally clause *)
WarmError_bypassing_finally(t) ==
    /\ warm_pc[t] = "warming" /\ warm_idx[t] < warm_leagues[t]
    /\ warm_pc' = [warm_pc EXCEPT ![t] = "returned"]
    /\ UNCHANGED <<warm_lock, warm_leagues, warm_idx, notWarm>>

(* lines 134-135: an error outside the per-league handler ends the loop *)
WarmError(t) ==
    /\ warm_pc[t] = "warming" /\ warm_idx[t] < warm_leagues[t]
    /\ warm_pc' = [warm_pc EXCEPT ![t] = "finally"]
    /\ UNCHANGED <<warm_lock, warm_leagues, warm_idx, notWarm>>

(* line 132: every league is handled *)
WarmFinished(t) ==
    /\ warm_pc[t] = "warming" /\ warm_idx[t] = warm_leagues[t]
    /\ warm_pc' = [warm_pc EXCEPT ![t] = "finally"]
    /\ UNCHANGED <<warm_lock, warm_leagues, warm_idx, notWarm>>

(* lines 136-137: finally: _warm_lock.release() *)
WarmRelease(t) ==
    /\ warm_pc[t] = "finally"
    /\ warm_lock' = FALSE
    /\ warm_pc' = [warm_pc EXCEPT ![t] = "returned"]
    /\ UNCHANGED <<warm_leagues, warm_idx, notWarm>>

(* The call has returned: the thread ends, or the refresh loop sleeps *)
WarmReturn(t) ==
    /\ warm_pc[t] \in {"returned", "skipped"}
    /\ warm_pc' = [warm_pc EXCEPT ![t] = "idle"]
    /\ warm_leagues' = [warm_leagues EXCEPT ![t] = 0]
    /\ warm_idx' = [warm_idx EXCEPT ![t] = 0]
    /\ UNCHANGED <<warm_lock, notWarm>>

NextWarm ==
    \/ RefreshLoopWarm
    \/ RouteWarm
    \/ \E t \in Threads : WarmNoLeagues(t)
    \/ \E t \in Threads : WarmTryLock(t)
    \/ \E t \in Threads : WarmLeague(t)
    \/ \E t \in Threads : WarmError(t)
    \/ \E t \in Threads : WarmFinished(t)
    \/ \E t \in Threads : WarmRelease(t)
    \/ \E t \in Threads : WarmReturn(t)

SpecWarm == InitWarm /\ [][NextWarm]_vars

(* A thread inside the body of _warm_league_caches goes on running: each
   call it makes returns or raises, and the thread is scheduled again *)
WarmStep(t) ==
    WarmLeague(t) \/ WarmError(t) \/ WarmFinished(t) \/ WarmRelease(t)

SpecWarmFair ==
    InitWarm /\ [][NextWarm]_vars /\ \A t \in Threads : WF_vars(WarmStep(t))

---------------------------------------------------------------------------
(* The prediction cache of src/predictor.py (lines 13-33) and its users:
   predict_all_matchups (lines 433-641), project_future_category_records
   (app.py lines 429-495) and clear_roster_cache (app.py lines 668-700).
   A prediction is the list of its matchups, each standing for the roster
   version it was computed from. *)

PREDICTION_CACHE_TTL == 3600

(* The clock advances by half the lifetime of an entry *)
TickSeconds == PREDICTION_CACHE_TTL \div 2

(* The league/week pairs requested *)
CacheRequests == {<<"A", 1>>, <<"A", 2>>, <<"B", 1>>}
RecordsRequests == {<<"A", 1>>}

(* lines 439 and app.py 437: the f-strings that form the keys *)
AllMatchupsKey(league_key, week) ==
    "all_matchups:" \o league_key \o ":" \o ToString(week)

ProjectedRecordsKey(league_key, current_week_, target_week) ==
    "projected_records:" \o league_key \o ":" \o ToString(current_week_)
        \o ":" \o ToString(target_week)

(* An entry counted as live up to and including its expiry time *)
CacheFresh_through_expiry(t, expires) == t <= expires

(* line 22: datetime.now() < cached['expires'] *)
CacheFresh(t, expires) == t < expires

DropKey(cache, key) == [k \in DOMAIN cache \ {key} |-> cache[k]]

(* lines 18-26 *)
get_prediction_cached(cache, key, t) ==
    IF key \in DOMAIN cache
    THEN IF CacheFresh(t, cache[key].expires)
         THEN [data |-> {cache[key].data}, cache |-> cache]
         ELSE [data |-> {}, cache |-> DropKey(cache, key)]
    ELSE [data |-> {}, cache |-> cache]

(* An entry stored without a lifetime *)
set_prediction_cached_expiring_at_once(cache, key, data, t) ==
    [k \in DOMAIN cache \cup {key} |->
        IF k = key THEN [data |-> data, expires |-> t] ELSE cache[k]]

(* lines 28-33 *)
set_prediction_cached(cache, key, data, t) ==
    [k \in DOMAIN cache \cup {key} |->
        IF k = key THEN [data |-> data, expires |-> t + PREDICTION_CACHE_TTL]
        ELSE cache[k]]

(* app.py lines 682-687: predictor is the FantasyPredictor instance
   (app.py line 20, predictor.py line 1680), which has no attribute
   _prediction_cache (lines 209-211); the AttributeError is caught and the
   module's dictionary is left as it is *)
clear_prediction_cache(cache) == cache

notCache == <<coreVars, injuryVars, warmVars, batchVars, lateVars>>

InitCache ==
    /\ pc = "cache_idle"
    /\ ProjectionIdle /\ CompareIdle /\ PlatformIdle /\ RequestIdle /\ AuxIdle

(* Time passes *)
Tick ==
    /\ pc \in {"cache_idle", "computing"}
    /\ now < MaxTicks * TickSeconds
    /\ now' = now + TickSeconds
    /\ UNCHANGED <<pc, prediction_cache, roster_version, cache_req, cache_key,
                   cached, returned, fetched, cache_outcome, notCache>>

(* The rosters change on the platform (a player is added or dropped) *)
RosterChange ==
    /\ pc = "cache_idle"
    /\ roster_version < MaxVersion
    /\ roster_version' = roster_version + 1
    /\ UNCHANGED <<pc, prediction_cache, now, cache_req, cache_key,
                   cached, returned, fetched, cache_outcome, notCache>>

(* The cache is read first; a hit is returned at once *)
Lookup(kind, league_key, week, key) ==
    /\ pc = "cache_idle"
    /\ LET r == get_prediction_cached(prediction_cache, key, now)
       IN  /\ prediction_cache' = r.cache
           /\ cached' = r.data
           /\ returned' = r.data
           /\ cache_outcome' = IF r.data # {} THEN "hit" ELSE ""
           /\ pc' = IF r.data # {} THEN "cache_responded" ELSE "computing"
    /\ cache_req' = [kind |-> kind, league |-> league_key, week |-> week]
    /\ cache_key' = key
    /\ fetched' = FALSE
    /\ UNCHANGED <<now, roster_version, notCache>>

(* predictor.py lines 438-443 *)
PredictAllLookup ==
    /\ pc = "cache_idle"
    /\ \E q \in CacheRequests :
          Lookup("predict_all", q[1], q[2], AllMatchupsKey(q[1], q[2]))

(* lines 445-456: the scoreboard is empty: [] is returned and not stored *)
PredictAllNoMatchups ==
    /\ pc = "computing" /\ cache_req.kind = "predict_all"
    /\ returned' = {<<>>}
    /\ cache_outcome' = "no matchups"
    /\ pc' = "cache_responded"
    /\ UNCHANGED <<prediction_cache, now, roster_version, cache_req, cache_key,
                   cached, fetched, notCache>>

(* lines 445-455 and any failing call up to line 638: an exception leaves
   the function and nothing is stored *)
PredictAllRaises ==
    /\ pc = "computing" /\ cache_req.kind = "predict_all"
    /\ \E e \in {"PlayoffWeekError", "Exception"} : cache_outcome' = e
    /\ \E f \in BOOLEAN : fetched' = f
    /\ pc' = "cache_responded"
    /\ UNCHANGED <<prediction_cache, now, roster_version, cache_req, cache_key,
                   cached, returned, notCache>>

(* lines 458-641: the rosters are fetched, every matchup is simulated, the
   list is stored and returned *)
PredictAllCompute ==
    /\ pc = "computing" /\ cache_req.kind = "predict_all"
    /\ LET predictions_ == <<roster_version>>
       IN  /\ prediction_cache' =
                 set_prediction_cached(prediction_cache, cache_key, predictions_, now)
           /\ returned' = {predictions_}
    /\ fetched' = TRUE
    /\ cache_outcome' = "computed"
    /\ pc' = "cache_responded"
    /\ UNCHANGED <<now, roster_version, cache_req, cache_key, cached, notCache>>

(* app.py lines 436-441, with current_week = target_week as the warm-up
   calls it (app.py line 126) *)
RecordsLookup ==
    /\ pc = "cache_idle"
    /\ \E q \in RecordsRequests :
          Lookup("records", q[1], q[2], ProjectedRecordsKey(q[1], q[2], q[2]))

(* app.py lines 443-495: the week's predictions come from
   predict_all_matchups (its own cache read included), the records are
   stored and returned *)
RecordsCompute ==
    /\ pc = "computing" /\ cache_req.kind = "records"
    /\ LET inner_key == AllMatchupsKey(cache_req.league, cache_req.week)
           inner == get_prediction_cached(prediction_cache, inner_key, now)
           week_predictions == IF inner.data # {}
                               THEN CHOOSE d \in inner.data : TRUE
                               ELSE <<roster_version>>
           after_inner == IF inner.data # {} THEN inner.cache
                          ELSE set_prediction_cached(inner.cache, inner_key,
                                                     week_predictions, now)
       IN  /\ prediction_cache' =
                 set_prediction_cached(after_inner, cache_key, week_predictions, now)
           /\ returned' = {week_predictions}
           /\ fetched' = (inner.data = {})
    /\ cache_outcome' = "computed"
    /\ pc' = "cache_responded"
    /\ UNCHANGED <<now, roster_version, cache_req, cache_key, cached, notCache>>

(* app.py lines 668-700: /api/clear-roster-cache *)
ClearRosterCache ==
    /\ pc = "cache_idle"
    /\ prediction_cache' = clear_prediction_cache(prediction_cache)
    /\ cache_req' = [kind |-> "clear", league |-> "", week |-> 0]
    /\ cache_outcome' = "cleared"
    /\ pc' = "cache_responded"
    /\ UNCHANGED <<now, roster_version, cache_key, cached, returned, fetched,
                   notCache>>

(* The response is sent; the cache, the clock and the rosters stay *)
CacheRequestDone ==
    /\ pc = "cache_responded"
    /\ pc' = "cache_idle"
    /\ cache_req' = NoRequest /\ cache_key' = ""
    /\ cached' = {} /\ returned' = {} /\ fetched' = FALSE
    /\ cache_outcome' = ""
    /\ UNCHANGED <<prediction_cache, now, roster_version, notCache>>

NextCache ==
    \/ Tick
    \/ RosterChange
    \/ PredictAllLookup
    \/ PredictAllNoMatchups
    \/ PredictAllRaises
    \/ PredictAllCompute
    \/ RecordsLookup
    \/ RecordsCompute
    \/ ClearRosterCache
    \/ CacheRequestDone

SpecCache == InitCache /\ [][NextCache]_vars

---------------------------------------------------------------------------
(* predict_all_matchups, lines 458-641: the rosters of all teams fetched in
   parallel, the player averages, and the prediction of each matchup.  The
   week has a single day, today, on which BOS and GSW play; no actual
   totals are reported yet. *)

(* The scoreboard: the team keys of each matchup *)
BatchScoreboards ==
    {<<<<1, 2>>, <<3, 4>>>>, <<<<1, 2>>, <<3>>, <<4, 5>>>>}

(* What get_team_roster returns for a team when it succeeds *)
RosterOf(team_key) ==
    CASE team_key = 1 -> <<Player(11, "BOS", "PG", ""), Player(12, "BOS", "BN", "")>>
      [] team_key = 2 -> <<Player(21, "GS", "PG", " Q")>>
      [] team_key = 3 -> <<Player(31, "BOS", "UTIL", "P"), Player(32, "BOS", "IL", "")>>
      [] team_key = 4 -> <<Player(41, "LAL", "PG", ""), Player(42, "GS", "PG", "DTD")>>
      [] OTHER        -> <<Player(51, "GS", "PG", "")>>

BatchTeamsPlaying == {"BOS", "GSW"}

(* lines 465-468 *)
RECURSIVE AllTeamKeys(_)
AllTeamKeys(matchups) ==
    IF matchups = <<>> THEN <<>>
    ELSE Head(matchups) \o AllTeamKeys(Tail(matchups))

TeamSet(matchups) == {AllTeamKeys(matchups)[i] : i \in 1 .. Len(AllTeamKeys(matchups))}

(* lines 511-520: the averages found for a player: Basketball Reference by
   name, else the Yahoo season stats, else none (the roster entry carries
   no stats) *)
HasAverages(player_key) == player_key # 12

AveragesFor(player_key) ==
    IF player_key = 51 THEN YahooSeasonTotals ELSE BBRefAverages

RosterAverageEntries(ros) ==
    [k \in {ros[i].player_key : i \in {j \in 1 .. Len(ros) : HasAverages(ros[j].player_key)}} |->
        AveragesFor(k)]

(* lines 482-483 in the order of arrival: the keys of all_rosters in
   insertion order *)
RECURSIVE InsertionOrder(_, _)
InsertionOrder(order, rosters) ==
    IF order = <<>> THEN <<>>
    ELSE IF Head(order) \notin DOMAIN rosters
         THEN InsertionOrder(Tail(order), rosters)
    ELSE <<Head(order)>> \o InsertionOrder(Tail(order), rosters)

(* lines 504-520: player_averages filled roster by roster, in the order of
   all_rosters.values(); a later assignment to a key replaces an earlier *)
RECURSIVE AveragesAfter(_, _, _)
AveragesAfter(rosters, order, n) ==
    IF n = 0 THEN EmptyDict
    ELSE RosterAverageEntries(rosters[order[n]]) @@ AveragesAfter(rosters, order, n - 1)

(* The collection stopped at the first failed fetch *)
collect_result_until_first_failure(rosters, team_key, failed, failed_before) ==
    IF failed \/ failed_before THEN rosters
    ELSE (team_key :> RosterOf(team_key)) @@ rosters

(* lines 480-485: a fetched roster is stored under its team key; a failed
   fetch is logged and the loop goes on *)
collect_result(rosters, team_key, failed, failed_before) ==
    IF failed THEN rosters
    ELSE (team_key :> RosterOf(team_key)) @@ rosters

(* The rosters used as soon as one fetch has been collected *)
FetchesComplete_after_the_first(state) ==
    \E t \in DOMAIN state : state[t] = "collected"

(* lines 478-485: the as_completed loop ends and the executor is left only
   when every future is done and has been handled *)
FetchesComplete(state) ==
    \A t \in DOMAIN state : state[t] = "collected"

(* lines 562, 577: all_rosters.get(team_key, []) *)
RosterFor(rosters, team_key) ==
    IF team_key \in DOMAIN rosters THEN rosters[team_key] ELSE <<>>

(* lines 904-940 with the averages of the batch *)
BatchPlayerInfo(player, averages) ==
    [PlayerInfo(player) EXCEPT
        !.avg_stats = IF player.player_key \in DOMAIN averages
                      THEN averages[player.player_key] ELSE player.stats]

(* _project_team_with_actuals for the one-day week: final_totals *)
ProjectTeamTotals(ros, averages) ==
    LET info == [i \in 1 .. Len(ros) |-> BatchPlayerInfo(ros[i], averages)]
        counted == PlayersToCount(info, 1, FALSE, BatchTeamsPlaying)
    IN  FinalTotals(CombineProjected(ZeroStats, DayStats(info, counted)),
                    CombineShooting(ZeroFG, DayShooting(info, counted)))

(* lines 595-636: the entry appended to predictions for two projections *)
PairPrediction(team1, team2, p1, p2) ==
    LET c == compare_projections(p1, p2)
        team1_wins == c.predicted_score[1]
        team2_wins == c.predicted_score[2]
    IN  [team1 |-> [key |-> team1, projected |-> p1, wins |-> team1_wins],
         team2 |-> [key |-> team2, projected |-> p2, wins |-> team2_wins],
         category_winners |-> c.category_winners,
         predicted_score |-> ToString(team1_wins) \o "-" \o ToString(team2_wins),
         winner_key |-> IF team1_wins > team2_wins THEN {team1}
                        ELSE IF team2_wins > team1_wins THEN {team2}
                        ELSE {}]

(* lines 523-636: the prediction of one matchup of two teams *)
PredictPair(team1, team2, rosters, averages) ==
    PairPrediction(team1, team2,
                   ProjectTeamTotals(RosterFor(rosters, team1), averages),
                   ProjectTeamTotals(RosterFor(rosters, team2), averages))

notBatch == <<coreVars, injuryVars, warmVars, cacheVars, lateVars>>
batchInput == <<batch_matchups, fetch_fails>>

(* lines 458-479: every team's fetch is submitted to the pool *)
InitBatch ==
    /\ pc = "fetching"
    /\ ProjectionIdle /\ CompareIdle /\ PlatformIdle /\ RequestIdle
    /\ InjuryIdle /\ WarmIdle /\ CacheIdle /\ LateIdle
    /\ batch_matchups \in BatchScoreboards
    /\ fetch_fails \in {F \in SUBSET TeamSet(batch_matchups) :
                            Cardinality(F) <= MaxFailing}
    /\ fetch_state = [t \in TeamSet(batch_matchups) |-> "submitted"]
    /\ collected_order = <<>> /\ all_rosters = <<>>
    /\ batch_idx = 0 /\ batch_predictions = <<>>

(* lines 474-475, in a worker thread: get_team_roster returns or raises *)
FetchFinishes ==
    /\ pc = "fetching"
    /\ \E t \in DOMAIN fetch_state :
          /\ fetch_state[t] = "submitted"
          /\ fetch_state' = [fetch_state EXCEPT ![t] = "finished"]
    /\ UNCHANGED <<pc, batchInput, collected_order, all_rosters, batch_idx,
                   batch_predictions, notBatch>>

(* lines 480-485, in the calling thread: as_completed yields a finished
   future and its result is stored, or its exception is logged *)
CollectResult ==
    /\ pc = "fetching"
    /\ \E t \in DOMAIN fetch_state :
          /\ fetch_state[t] = "finished"
          /\ fetch_state' = [fetch_state EXCEPT ![t] = "collected"]
          /\ collected_order' = Append(collected_order, t)
          /\ all_rosters' =
                collect_result(all_rosters, t, t \in fetch_fails,
                               \E i \in 1 .. Len(collected_order) :
                                   collected_order[i] \in fetch_fails)
    /\ UNCHANGED <<pc, batchInput, batch_idx, batch_predictions, notBatch>>

(* lines 487-520: the pool is left and the player averages are built *)
BuildAverages ==
    /\ pc = "fetching"
    /\ FetchesComplete(fetch_state)
    /\ LET order == InsertionOrder(collected_order, all_rosters)
       IN  player_averages' = AveragesAfter(all_rosters, order, Len(order))
    /\ pc' = "predicting"
    /\ UNCHANGED <<roster, acquisition_dates, il_placements, il_removals,
                   blendIn, splitVars, player_info, resultVars, blendVars,
                   loopVars, compareVars, platformVars, requestVars,
                   injuryVars, warmVars, cacheVars, batchVars, lateVars>>

(* lines 524-528: a matchup that has not two teams is passed over *)
SkipMatchup ==
    /\ pc = "predicting"
    /\ batch_idx < Len(batch_matchups)
    /\ Len(batch_matchups[batch_idx + 1]) # 2
    /\ batch_idx' = batch_idx + 1
    /\ UNCHANGED <<pc, batchInput, fetch_state, collected_order, all_rosters,
                   batch_predictions, notBatch>>

(* lines 530-636: a matchup of two teams is predicted *)
PredictNextMatchup ==
    /\ pc = "predicting"
    /\ batch_idx < Len(batch_matchups)
    /\ Len(batch_matchups[batch_idx + 1]) = 2
    /\ LET teams == batch_matchups[batch_idx + 1]
       IN  batch_predictions' =
             Append(batch_predictions,
                    PredictPair(teams[1], teams[2], all_rosters, player_averages))
    /\ batch_idx' = batch_idx + 1
    /\ UNCHANGED <<pc, batchInput, fetch_state, collected_order, all_rosters,
                   notBatch>>

(* lines 639-641: the list is stored and returned *)
ReturnPredictions ==
    /\ pc = "predicting"
    /\ batch_idx = Len(batch_matchups)
    /\ pc' = "batch_done"
    /\ UNCHANGED <<batchVars, notBatch>>

NextBatch ==
    \/ FetchFinishes
    \/ CollectResult
    \/ BuildAverages
    \/ SkipMatchup
    \/ PredictNextMatchup
    \/ ReturnPredictions

SpecBatch == InitBatch /\ [][NextBatch]_vars

---------------------------------------------------------------------------
(* Requests: the routes of src/app.py and predict_matchup /
   predict_all_matchups of src/predictor.py.  Each request starts with a
   cold prediction cache. *)

MaxWeek == 3        \* weeks of the season: 1 .. MaxWeek

Weeks == 1 .. MaxWeek

(* `x if x else y' on an optional week number *)
WeekGiven(w) == w # {} /\ w # {0}
TheWeek(w) == CHOOSE x \in w : TRUE

(* The two rosters of the matchup and their averages *)
MyRoster == MakeRoster(Player(1, "GS", "PG", " Q"), 0)
OpponentRoster == MakeRoster(Player(1, "LAL", "IL", ""), 0)
RosterAverages == MakeAverages("bbref", 0)

(* What get_team_weekly_schedule returns (has_game per day); empty when
   the schedule is not available *)
WeeklySchedChoices == {<<>>, <<TRUE, FALSE, TRUE>>, <<FALSE>>}

(* _calculate_initial_projection, lines 742-744 *)
GamesThisWeek(team_abbr, sched) ==
    IF team_abbr # "" /\ sched # <<>>
    THEN Cardinality({i \in 1 .. Len(sched) : sched[i]})
    ELSE 3

(* lines 726-738: the players the initial projection keeps *)
InitiallyProjected(ros) ==
    {i \in 1 .. Len(ros) :
        /\ ros[i].roster_position \notin INACTIVE_POSITIONS
        /\ get_injury_factor(ros[i].status) # Zero}

(* The same weekly schedule for every team *)
SameForAll(sched) == [t \in Teams |-> sched]

(* lines 714-809; sched[t] is what get_team_weekly_schedule returns for
   team t *)
InitialProjection(ros, averages, sched) ==
    LET avg(i) == IF ros[i].player_key \in DOMAIN averages
                  THEN averages[ros[i].player_key] ELSE ros[i].stats
        weight(i) == RMul(Int2R(GamesThisWeek(ros[i].team, sched[ros[i].team])),
                          get_injury_factor(ros[i].status))
        pts(i) == RDiv(GetOr(avg(i), "12", Zero), PerGameDivisor(avg(i)))
        est_fga(i) == IF RGt(pts(i), Zero) THEN RDiv(pts(i), Rat(21, 10)) ELSE Int2R(8)
        est_fta(i) == IF RGt(pts(i), Zero) THEN RDiv(pts(i), Int2R(6)) ELSE Int2R(3)
        fga(i) == RMul(est_fga(i), weight(i))
        fgm(i) == RMul(RMul(est_fga(i), ShootingPct(avg(i), "5", Rat(45, 100))), weight(i))
        fta(i) == RMul(est_fta(i), weight(i))
        ftm(i) == RMul(RMul(est_fta(i), ShootingPct(avg(i), "8", Rat(75, 100))), weight(i))
        kept == InitiallyProjected(ros)
    IN  [cat \in CATEGORIES |->
            IF cat \in COUNTING_STATS
            THEN LET one(i) ==
                        RMul(RDiv(GetOr(avg(i), STAT_CATEGORIES[cat], Zero),
                                  PerGameDivisor(avg(i))),
                             weight(i))
                 IN  SumOver(kept, one)
            ELSE IF cat = "FG%"
            THEN RateTotal(SumOver(kept, fgm), SumOver(kept, fga))
            ELSE RateTotal(SumOver(kept, ftm), SumOver(kept, fta))]

(* predict_matchup, line 246 *)
IsPastWeek(cw, wn) == cw # {} /\ wn < TheWeek(cw)

(* The platform's totals passed on as they are *)
PastWeekTotals_as_reported(team_stats) ==
    [cat \in CATEGORIES |-> GetOr(team_stats, STAT_CATEGORIES[cat], Zero)]

(* _get_past_week_results, lines 658-676 *)
PastWeekTotals(team_stats) ==
    [cat \in CATEGORIES |->
        LET v == GetOr(team_stats, STAT_CATEGORIES[cat], Zero)
        IN  IF cat \in RATE_STATS /\ RGt(v, Zero) /\ RLt(v, Int2R(1))
            THEN RMul(v, Int2R(100)) ELSE v]

(* What get_matchup returns for a week: None, a matchup without an
   opponent, or both teams with their accumulated stats *)
MatchupChoices(w) ==
    {NoMatchup}
    \cup {[found |-> TRUE, has_opponent |-> FALSE, week |-> w,
           my_stats |-> ActualInProgress, opp_stats |-> EmptyDict]}
    \cup {[found |-> TRUE, has_opponent |-> TRUE, week |-> w,
           my_stats |-> st[1], opp_stats |-> st[2]] :
            st \in {<<ActualInProgress, ActualPercentForm>>,
                    <<ActualPercentForm, ActualInProgress>>,
                    <<ActualNothingYet, ActualNothingYet>>}}

(* The totals _project_team_with_actuals returns for the two teams of a
   current or future week *)
ProjectedPairs ==
    {<<my, opp>> : my \in {t \in TotalsChoices : t["TO"] = Int2R(5) /\ t["REB"] = Zero
                                                 /\ t["PTS"] = Int2R(10)},
                   opp \in {t \in TotalsChoices : t["TO"] = Int2R(10) /\ t["REB"] = Zero}}

NoPrediction(signal) ==
    [outcome |-> signal, week_num |-> 0, is_past_week |-> FALSE,
     my_totals |-> NoTotals, opp_totals |-> NoTotals,
     initial_my |-> NoTotals, initial_opp |-> NoTotals,
     verdict |-> [category_winners |-> NoVerdict, predicted_score |-> <<0, 0>>,
                  confidence |-> EmptyDict]]

(* predict_matchup, lines 213-431 *)
predict_matchup(cw, team_found, m, sched, projected) ==
    IF ~team_found THEN NoPrediction("Exception")
    ELSE IF ~m.found \/ ~m.has_opponent THEN NoPrediction("PlayoffWeekError")
    ELSE LET wn == m.week
             past == IsPastWeek(cw, wn)
             my == IF past THEN PastWeekTotals(m.my_stats) ELSE projected[1]
             opp == IF past THEN PastWeekTotals(m.opp_stats) ELSE projected[2]
         IN  [outcome |-> "prediction", week_num |-> wn, is_past_week |-> past,
              my_totals |-> my, opp_totals |-> opp,
              initial_my |-> InitialProjection(MyRoster, RosterAverages, SameForAll(sched)),
              initial_opp |-> InitialProjection(OpponentRoster, RosterAverages, SameForAll(sched)),
              verdict |-> compare_projections(my, opp)]

(* The response variables after a single-matchup request *)
Respond(r, template) ==
    /\ outcome' = r.outcome
    /\ week_num' = r.week_num
    /\ is_past_week' = r.is_past_week
    /\ my_total_projected' = r.my_totals
    /\ opp_total_projected' = r.opp_totals
    /\ initial_my_projected' = r.initial_my
    /\ initial_opponent_projected' = r.initial_opp
    /\ category_winners' = r.verdict.category_winners
    /\ predicted_score' = r.verdict.predicted_score
    /\ confidence' = r.verdict.confidence
    /\ rendered' = template
    /\ predictions' = <<>>

(* The league as the platform holds it when the request arrives *)
PlatformLeague ==
    /\ league_found' \in BOOLEAN
    /\ platform_current_week' \in Weeks
    /\ playoff_start_week' \in {{}, {2}}
    /\ my_team_found' \in BOOLEAN
    /\ week_arg' \in {{}} \cup {{w} : w \in Weeks}

(* app.py lines 276-283 and 506-515: league_info and the week selected *)
RouteCurrentWeek(found, cur) == IF found THEN cur ELSE 1
SelectedWeek(arg, cw) == IF WeekGiven(arg) THEN TheWeek(arg) ELSE cw

(* app.py lines 266-314: /predict/<league_key> *)
Predict ==
    /\ pc = "idle"
    /\ PlatformLeague
    /\ \E sched \in WeeklySchedChoices, projected \in ProjectedPairs :
        LET cw == RouteCurrentWeek(league_found', platform_current_week')
            selected_week == SelectedWeek(week_arg', cw)
        IN  \E m \in MatchupChoices(selected_week) :
              LET r == predict_matchup({cw}, my_team_found', m, sched, projected)
              IN  /\ matchup' = m
                  /\ weekly_sched' = sched
                  /\ requested_week' = {selected_week}
                  /\ current_week' = {cw}
                  /\ Respond(r, CASE r.outcome = "prediction" -> "prediction.html"
                                  [] r.outcome = "PlayoffWeekError" -> "playoff.html"
                                  [] OTHER -> "error.html")
    /\ route' = "predict"
    /\ scoreboard' = <<>>
    /\ pc' = "responded"
    /\ UNCHANGED <<projectionVars, auxVars>>

(* app.py lines 551-580: /api/predict/<league_key> *)
ApiPredict ==
    /\ pc = "idle"
    /\ PlatformLeague
    /\ \E sched \in WeeklySchedChoices, projected \in ProjectedPairs :
        LET asked == IF WeekGiven(week_arg') THEN TheWeek(week_arg')
                     ELSE platform_current_week'
        IN  \E m \in MatchupChoices(asked) :
              LET r == predict_matchup({}, my_team_found', m, sched, projected)
              IN  /\ matchup' = m
                  /\ weekly_sched' = sched
                  /\ requested_week' = week_arg'
                  /\ current_week' = {}
                  /\ Respond(r, IF r.outcome = "prediction" THEN "json"
                                ELSE "json error 500")
    /\ route' = "api_predict"
    /\ scoreboard' = <<>>
    /\ pc' = "responded"
    /\ UNCHANGED <<projectionVars, auxVars>>

(* What get_league_scoreboard returns: the number of teams of each matchup *)
ScoreboardChoices == {<<>>, <<2>>, <<1>>, <<2, 1>>}

(* predict_all_matchups, lines 445-456: no matchup on the scoreboard *)
EmptyScoreboardIsPlayoff(week, found, playoff_start) ==
    /\ found
    /\ WeekGiven(playoff_start)
    /\ WeekGiven(week)
    /\ TheWeek(week) >= TheWeek(playoff_start)

(* predict_all_matchups, lines 433-641: the signal raised, or the list of
   predictions, one for each matchup of two teams *)
predict_all_matchups(week, sb, found, playoff_start, projected) ==
    IF sb = <<>>
    THEN IF EmptyScoreboardIsPlayoff(week, found, playoff_start)
         THEN [outcome |-> "PlayoffWeekError", predictions |-> <<>>]
         ELSE [outcome |-> "predictions", predictions |-> <<>>]
    ELSE LET paired == LET P(i) == sb[i] = 2 IN Indices(sb, P)
             verdict == compare_projections(projected[1], projected[2])
         IN  [outcome |-> "predictions",
              predictions |->
                 [k \in 1 .. Len(paired) |->
                     [team1 |-> projected[1], team2 |-> projected[2],
                      category_winners |-> verdict.category_winners,
                      predicted_score |-> verdict.predicted_score]]]

(* app.py lines 496-548: /predict/<league_key>/all *)
PredictAll ==
    /\ pc = "idle"
    /\ PlatformLeague
    /\ \E sb \in ScoreboardChoices, projected \in ProjectedPairs :
        LET cw == RouteCurrentWeek(league_found', platform_current_week')
            selected_week == SelectedWeek(week_arg', cw)
            r == predict_all_matchups({selected_week}, sb, league_found',
                                      playoff_start_week', projected)
        IN  /\ scoreboard' = sb
            /\ requested_week' = {selected_week}
            /\ current_week' = {cw}
            /\ outcome' = r.outcome
            /\ predictions' = r.predictions
            /\ rendered' = IF r.outcome = "PlayoffWeekError"
                           THEN "playoff_all.html" ELSE "all_matchups.html"
    /\ route' = "predict_all"
    /\ matchup' = NoMatchup
    /\ weekly_sched' = <<>>
    /\ pc' = "responded"
    /\ UNCHANGED <<projectionVars, compareVars, week_num, is_past_week,
                   initial_my_projected, initial_opponent_projected, auxVars>>

InitMatchup ==
    /\ pc = "idle"
    /\ ProjectionIdle /\ CompareIdle /\ PlatformIdle /\ RequestIdle /\ AuxIdle

(* The response is sent and nothing of the request is kept *)
RequestDone ==
    /\ pc = "responded"
    /\ pc' = "idle"
    /\ my_total_projected' = NoTotals /\ opp_total_projected' = NoTotals
    /\ category_winners' = NoVerdict /\ predicted_score' = <<0, 0>>
    /\ confidence' = EmptyDict
    /\ league_found' = FALSE /\ platform_current_week' = 0
    /\ playoff_start_week' = {} /\ my_team_found' = FALSE
    /\ matchup' = NoMatchup /\ scoreboard' = <<>> /\ weekly_sched' = <<>>
    /\ route' = "" /\ week_arg' = {} /\ requested_week' = {}
    /\ current_week' = {} /\ week_num' = 0
    /\ outcome' = "" /\ rendered' = ""
    /\ is_past_week' = FALSE
    /\ initial_my_projected' = NoTotals /\ initial_opponent_projected' = NoTotals
    /\ predictions' = <<>>
    /\ UNCHANGED <<projectionVars, auxVars>>

NextMatchup ==
    \/ Predict
    \/ ApiPredict
    \/ PredictAll
    \/ RequestDone

SpecMatchup == InitMatchup /\ [][NextMatchup]_vars

---------------------------------------------------------------------------
(* src/nba_schedule.py, lines 14-32: the Pacific date, and the split of the
   week that _project_team_with_actuals makes with it (lines 839-841 and
   884-895).

   Time is counted in hours.  Day d of the requested week is the Pacific
   calendar day that runs from hour 24 * d to hour 24 * d + 23.  clock.now
   is datetime.now(), the naive local time of the server; the server's
   zone is clock.utc_offset hours ahead of UTC; clock.month is the month
   of now and clock.pacific_dst tells whether the Pacific zone is on
   daylight time at that moment. *)

(* Months whose rule for daylight time the program applies differ from the
   zone's: early March and early November *)
Seasons ==
    {[month |-> 1,  pacific_dst |-> FALSE], [month |-> 3,  pacific_dst |-> FALSE],
     [month |-> 7,  pacific_dst |-> TRUE],  [month |-> 11, pacific_dst |-> TRUE]}

UtcOffsets == {0, 2}

(* datetime.now() hour by hour while the week and the day after it pass in
   the Pacific zone, whatever the server's zone *)
ClockChoices ==
    {[now |-> h, utc_offset |-> off, month |-> se.month,
      pacific_dst |-> se.pacific_dst] :
        h \in 24 .. 24 * (NDays + 2) - 1, off \in UtcOffsets, se \in Seasons}

(* lines 14-27 *)
get_pacific_time(c) ==
    LET is_dst == 3 <= c.month /\ c.month <= 10
        pst_offset == IF is_dst THEN -7 ELSE -8
    IN  c.now + pst_offset

(* lines 30-32: midnight of that day, as a day number *)
get_pacific_date(c) == get_pacific_time(c) \div 24

InitClock ==
    /\ pc = "clock_read"
    /\ clock \in ClockChoices
    /\ full_schedule = NoSchedule
    /\ ProjectionIdle /\ CompareIdle /\ PlatformIdle /\ RequestIdle
    /\ InjuryIdle /\ WarmIdle /\ CacheIdle /\ BatchIdle /\ LookupIdle
    /\ PairIdle

(* predictor.py lines 839-841 and 884-895 *)
SplitWeek ==
    /\ pc = "clock_read"
    /\ today_date_pst' = get_pacific_date(clock)
    /\ past_days' = PastDays(get_pacific_date(clock))
    /\ remaining_days' = RemainingDays(get_pacific_date(clock))
    /\ pc' = "split"
    /\ UNCHANGED <<inputVars, blendIn, player_info, resultVars, blendVars,
                   loopVars, outerVars>>

(* The clock moves on before the next request reads it *)
ClockTick ==
    /\ pc = "split"
    /\ clock.now < 24 * (NDays + 2) - 1
    /\ clock' = [clock EXCEPT !.now = @ + 1]
    /\ today_date_pst' = 0 /\ past_days' = <<>> /\ remaining_days' = <<>>
    /\ pc' = "clock_read"
    /\ UNCHANGED <<inputVars, blendIn, player_info, resultVars, blendVars,
                   loopVars, compareVars, platformVars, requestVars,
                   injuryVars, warmVars, cacheVars, batchVars, full_schedule,
                   lookupVars, pairVars>>

NextClock ==
    \/ SplitWeek
    \/ ClockTick

SpecClock == InitClock /\ [][NextClock]_vars

---------------------------------------------------------------------------
(* One pairing taken through predict_matchup and through
   predict_all_matchups with the same rosters, averages, schedule, clock
   and accumulated stats.  The week requested is PipelineWeek and its days
   are Days; team 1 is the user's team, with the roster of the projection,
   and team 2 is its opponent. *)

(* A week with a week before it and a week after it *)
PipelineWeek == MaxWeek - 1

(* The opponent: one player whose averages are the stats of the roster entry *)
PipelineOpponent ==
    <<[Player(21, "GS", "PG", "") EXCEPT !.stats = YahooSeasonTotals]>>

(* get_full_nba_schedule(): every day of the week is a key; day 2 may list
   no team *)
PipelineSchedules ==
    {[d \in Days |-> {"BOS", "GSW"}],
     [d \in Days |-> IF d = 2 THEN {} ELSE {"BOS", "GSW"}]}

(* A server on UTC in January at midnight of Pacific day d: the day before
   the week, the second day of the week, the day after the week *)
PipelineClocks ==
    {[now |-> 24 * d + 8, utc_offset |-> 0, month |-> 1, pacific_dst |-> FALSE] :
        d \in {0, 2, NDays + 1}}

(* The league's current week at that moment *)
CurrentWeekAt(c) ==
    IF get_pacific_date(c) < 1 THEN PipelineWeek - 1
    ELSE IF get_pacific_date(c) > NDays THEN PipelineWeek + 1
    ELSE PipelineWeek

(* The accumulated stats of the two teams on the platform *)
PipelineStats ==
    {<<ActualInProgress, ActualPercentForm>>,
     <<ActualNothingYet, ActualNothingYet>>,
     <<EmptyDict, EmptyDict>>}

(* nba_schedule.py lines 1057-1068: the other spelling of a team *)
AltAbbr(abbr) ==
    CASE abbr = "GSW" -> "GS"  [] abbr = "GS" -> "GSW"
      [] abbr = "NOP" -> "NO"  [] abbr = "NO" -> "NOP"
      [] abbr = "NYK" -> "NY"  [] abbr = "NY" -> "NYK"
      [] abbr = "PHO" -> "PHX" [] abbr = "PHX" -> "PHO"
      [] abbr = "SAS" -> "SA"  [] abbr = "SA" -> "SAS"
      [] OTHER -> abbr

(* nba_schedule.py lines 1020-1141: has_game for each day of the week, the
   scraped schedule adding no game to those of the full schedule *)
get_team_weekly_schedule(team_abbr, sched) ==
    LET abbr == normalize_team_abbr(team_abbr)
    IN  [d \in 1 .. NDays |->
            /\ d \in DOMAIN sched
            /\ (abbr \in sched[d] \/ AltAbbr(abbr) \in sched[d])]

WeeklySchedules(sched) == [t \in Teams |-> get_team_weekly_schedule(t, sched)]

(* predictor.py lines 962-1163: one day of the loop; a day without schedule
   or without games is skipped, on any other the players counted are added
   to the running totals *)
CountDay(before, info, day, include_il, sched) ==
    IF day \notin DOMAIN sched THEN before
    ELSE IF sched[day] = {} THEN before
    ELSE LET counted == PlayersToCount(info, day, include_il, sched[day])
         IN  [stats |-> AddMaps(before.stats, DayStats(info, counted)),
              fg_data |-> AddMaps(before.fg_data, DayShooting(info, counted)),
              games_counted |-> before.games_counted + Len(counted)]

(* predictor.py lines 949-1163: calculate_daily_stats over a list of days *)
calculate_daily_stats(info, days, include_il, sched) ==
    LET RECURSIVE Upto(_)
        Upto(n) ==
            IF n = 0
            THEN [stats |-> ZeroStats, fg_data |-> ZeroFG, games_counted |-> 0]
            ELSE CountDay(Upto(n - 1), info, days[n], include_il, sched)
    IN  Upto(Len(days))

(* predictor.py lines 903-947 and 1165-1193: player_info, then the past
   days counted with the inactive players and the remaining days without
   them; whole_week is what the remaining days are when today is before
   the first day of the week *)
CountedDays(ros, today, sched) ==
    LET info == [i \in 1 .. Len(ros) |-> PlayerInfo(ros[i])]
    IN  [past |-> calculate_daily_stats(info, PastDays(today), TRUE, sched),
         remaining |-> calculate_daily_stats(info, RemainingDays(today), FALSE,
                                             sched),
         whole_week |-> calculate_daily_stats(info, RemainingDays(0), FALSE,
                                              sched)]

(* predictor.py lines 1195-1373 without a remaining-games override:
   total_projected from the actual stats, the past days and the remaining
   days *)
TotalProjected(actual, today, past, remaining) ==
    IF UseActuals(actual, PastDays(today))
    THEN FinalTotals(CombineActual(actual, remaining.stats),
                     CombineShooting(EstimatePast(actual, past.fg_data),
                                     remaining.fg_data))
    ELSE FinalTotals(CombineProjected(past.stats, remaining.stats),
                     CombineShooting(past.fg_data, remaining.fg_data))

(* The user's roster has two or twelve players; the first varies in team,
   slot, status and acquisition date *)
InitPipeline ==
    /\ pc = "ready"
    /\ RosterInputs
    /\ player_averages = MakeAverages("bbref", Len(roster) - 2)
    /\ il_placements = NoDates
    /\ LocalsInit
    /\ clock \in PipelineClocks
    /\ full_schedule \in PipelineSchedules
    /\ league_found = TRUE /\ my_team_found = TRUE
    /\ platform_current_week = CurrentWeekAt(clock)
    /\ playoff_start_week = {}
    /\ \E st \in PipelineStats :
          matchup = [found |-> TRUE, has_opponent |-> TRUE, week |-> PipelineWeek,
                     my_stats |-> st[1], opp_stats |-> st[2]]
    /\ scoreboard = <<>> /\ weekly_sched = <<>>
    /\ CompareIdle /\ RequestIdle
    /\ InjuryIdle /\ WarmIdle /\ CacheIdle /\ BatchIdle /\ LookupIdle
    /\ PairIdle

notPair == <<projectionVars, compareVars, platformVars, requestVars,
             injuryVars, warmVars, cacheVars, batchVars, scheduleVars,
             lookupVars>>

(* _project_team_with_actuals for the two teams of the pairing, as
   predict_matchup (lines 384-414) and predict_all_matchups (lines 566-595)
   both call it: the days counted by calculate_daily_stats *)
SimulateDays ==
    /\ pc = "ready"
    /\ day_totals' =
          <<CountedDays(roster, get_pacific_date(clock), full_schedule),
            CountedDays(PipelineOpponent, get_pacific_date(clock),
                        full_schedule)>>
    /\ pc' = "days_counted"
    /\ UNCHANGED <<simulated, notPair>>

(* _project_team_with_actuals, lines 1195-1373: the totals of the two teams *)
BlendTotals ==
    /\ pc = "days_counted"
    /\ simulated' =
          <<TotalProjected(matchup.my_stats, get_pacific_date(clock),
                           day_totals[1].past, day_totals[1].remaining),
            TotalProjected(matchup.opp_stats, get_pacific_date(clock),
                           day_totals[2].past, day_totals[2].remaining)>>
    /\ pc' = "simulated"
    /\ UNCHANGED <<day_totals, notPair>>

(* predict_matchup(league_key, week, current_week), lines 213-431, the
   initial projections (333-335) made from the rosters of the matchup *)
PredictSingle ==
    /\ pc = "simulated"
    /\ LET r == predict_matchup({platform_current_week}, my_team_found, matchup,
                                <<>>, simulated)
            weekly == WeeklySchedules(full_schedule)
        IN  Respond([r EXCEPT
                        !.initial_my =
                            InitialProjection(roster, player_averages, weekly),
                        !.initial_opp =
                            InitialProjection(PipelineOpponent, player_averages,
                                              weekly)],
                    "prediction.html")
    /\ route' = "predict"
    /\ week_arg' = {PipelineWeek}
    /\ requested_week' = {PipelineWeek}
    /\ current_week' = {platform_current_week}
    /\ pc' = "single_done"
    /\ UNCHANGED <<projectionVars, platformVars, auxVars>>

(* predict_all_matchups(league_key, week, current_week), lines 523-637, for
   the same pairing *)
PredictBatch ==
    /\ pc = "single_done"
    /\ batch_predictions' = <<PairPrediction(1, 2, simulated[1], simulated[2])>>
    /\ pc' = "both_done"
    /\ UNCHANGED <<projectionVars, compareVars, platformVars, requestVars,
                   injuryVars, warmVars, cacheVars, lateVars, batch_matchups,
                   fetch_fails, fetch_state, collected_order, all_rosters,
                   batch_idx>>

NextPipeline ==
    \/ SimulateDays
    \/ BlendTotals
    \/ PredictSingle
    \/ PredictBatch

SpecPipeline == InitPipeline /\ [][NextPipeline]_vars

---------------------------------------------------------------------------
(* predictor.py lines 18-26 statement by statement: threads that call
   _get_prediction_cached with the same key (the warm-up thread and a
   request thread, or the workers of project_future_category_records).
   Each operation on the dictionary is one step; a thread can be
   suspended between two of them. *)

LookupThreads == {"warm", "request"}

EvictKey == AllMatchupsKey("A", 1)

notEvict == <<pc, coreVars, injuryVars, warmVars, batchVars, scheduleVars,
              pairVars, roster_version, cache_req, cache_key, cached, returned, fetched,
              cache_outcome>>

(* An entry stored at time 0 *)
InitEvict ==
    /\ pc = "lookups"
    /\ ProjectionIdle /\ CompareIdle /\ PlatformIdle /\ RequestIdle
    /\ InjuryIdle /\ WarmIdle /\ BatchIdle /\ ScheduleIdle /\ PairIdle
    /\ now = 0 /\ roster_version = 0
    /\ CacheRequestIdle
    /\ prediction_cache = set_prediction_cached(EmptyDict, EvictKey, 0, 0)
    /\ lookup_pc = [t \in LookupThreads |-> "idle"]
    /\ lookup_result = [t \in LookupThreads |-> "none"]

(* Time passes *)
EvictTick ==
    /\ now < MaxTicks * TickSeconds
    /\ now' = now + TickSeconds
    /\ UNCHANGED <<prediction_cache, lookupVars, notEvict>>

(* predictor.py line 440, app.py line 438: the call *)
LookupCall(t) ==
    /\ lookup_pc[t] = "idle"
    /\ lookup_pc' = [lookup_pc EXCEPT ![t] = "line 20"]
    /\ lookup_result' = [lookup_result EXCEPT ![t] = "none"]
    /\ UNCHANGED <<prediction_cache, now, notEvict>>

(* line 20: if key in _prediction_cache; line 26 when it is not *)
LookupTestKey(t) ==
    /\ lookup_pc[t] = "line 20"
    /\ IF EvictKey \in DOMAIN prediction_cache
       THEN /\ lookup_pc' = [lookup_pc EXCEPT ![t] = "line 21"]
            /\ UNCHANGED lookup_result
       ELSE /\ lookup_pc' = [lookup_pc EXCEPT ![t] = "returned"]
            /\ lookup_result' = [lookup_result EXCEPT ![t] = "None"]
    /\ UNCHANGED <<prediction_cache, now, notEvict>>

(* lines 21-23: cached = _prediction_cache[key], which raises KeyError when
   the key has gone, and the test of its expiry *)
LookupReadEntry(t) ==
    /\ lookup_pc[t] = "line 21"
    /\ IF EvictKey \notin DOMAIN prediction_cache
       THEN /\ lookup_pc' = [lookup_pc EXCEPT ![t] = "raised"]
            /\ lookup_result' = [lookup_result EXCEPT ![t] = "KeyError"]
       ELSE IF CacheFresh(now, prediction_cache[EvictKey].expires)
       THEN /\ lookup_pc' = [lookup_pc EXCEPT ![t] = "returned"]
            /\ lookup_result' = [lookup_result EXCEPT ![t] = "data"]
       ELSE /\ lookup_pc' = [lookup_pc EXCEPT ![t] = "line 25"]
            /\ UNCHANGED lookup_result
    /\ UNCHANGED <<prediction_cache, now, notEvict>>

(* lines 25-26: del _prediction_cache[key], which raises KeyError when the
   key has gone, then return None *)
LookupDelete(t) ==
    /\ lookup_pc[t] = "line 25"
    /\ IF EvictKey \in DOMAIN prediction_cache
       THEN /\ prediction_cache' = DropKey(prediction_cache, EvictKey)
            /\ lookup_pc' = [lookup_pc EXCEPT ![t] = "returned"]
            /\ lookup_result' = [lookup_result EXCEPT ![t] = "None"]
       ELSE /\ lookup_pc' = [lookup_pc EXCEPT ![t] = "raised"]
            /\ lookup_result' = [lookup_result EXCEPT ![t] = "KeyError"]
            /\ UNCHANGED prediction_cache
    /\ UNCHANGED <<now, notEvict>>

(* predictor.py lines 445-640: after a miss the caller computes the
   predictions and stores them *)
LookupRecompute(t) ==
    /\ lookup_pc[t] = "returned" /\ lookup_result[t] = "None"
    /\ prediction_cache' = set_prediction_cached(prediction_cache, EvictKey, 0, now)
    /\ lookup_pc' = [lookup_pc EXCEPT ![t] = "idle"]
    /\ UNCHANGED <<lookup_result, now, notEvict>>

(* predictor.py lines 441-443: the cached list is returned; or the
   KeyError leaves predict_all_matchups and ends the caller's work *)
LookupEnd(t) ==
    /\ lookup_pc[t] \in {"returned", "raised"} /\ lookup_result[t] # "None"
    /\ lookup_pc' = [lookup_pc EXCEPT ![t] = "idle"]
    /\ UNCHANGED <<lookup_result, prediction_cache, now, notEvict>>

NextEvict ==
    \/ EvictTick
    \/ \E t \in LookupThreads : LookupCall(t)
    \/ \E t \in LookupThreads : LookupTestKey(t)
    \/ \E t \in LookupThreads : LookupReadEntry(t)
    \/ \E t \in LookupThreads : LookupDelete(t)
    \/ \E t \in LookupThreads : LookupRecompute(t)
    \/ \E t \in LookupThreads : LookupEnd(t)

SpecEvict == InitEvict /\ [][NextEvict]_vars

---------------------------------------------------------------------------
(* Claims about _project_team_with_actuals and calculate_daily_stats *)

Today == days_list[day_idx]

DayHandled == pc = "loop" /\ day_idx >= 1

(* The players of player_info that pass every filter on the day just
   handled, were the cap not applied *)
PassingToday ==
    {i \in 1 .. Len(player_info) :
        PassesFilters(player_info[i], Today, include_il_players, teams_playing)}

(* C2: on every day, in both modes and for every roster size, at most
   MAX_DAILY_STARTERS (10) player-games are counted, so the games counted
   over the days handled so far never exceed 10 times their number. *)
C2_DailyCap ==
    pc = "loop" =>
        /\ Len(players_to_count) <= 10
        /\ games_counted <= 10 * day_idx

(* C2 witness: remaining-day mode, more than 10 players pass the filters
   of the day and exactly 10 are counted, after past days that each
   counted 10 as well. *)
C2_Witness ==
    /\ DayHandled /\ ~include_il_players /\ in_schedule
    /\ Cardinality(PassingToday) > 10
    /\ Len(players_to_count) = 10
    /\ Len(past_days) >= 1
    /\ past_games_counted_calc = 10 * Len(past_days)

(* C5: a day that is no key of the schedule, or whose entry lists no team,
   adds no counted game and no stats, and the loop goes on to the next day. *)
C5_SkippedDayAddsNothing ==
    [][(pc = "loop" /\ day_idx' = day_idx + 1 /\ teams_playing' = {}) =>
          /\ games_counted' = games_counted
          /\ stats' = stats
          /\ fg_data' = fg_data
          /\ player_info' = player_info
          /\ pc' = "loop" /\ days_list' = days_list]_vars

(* C5 witness: the first day of the list was skipped (nothing counted so
   far) and the second day has just been counted. *)
C5_Witness ==
    /\ DayHandled /\ day_idx = 2
    /\ players_to_count # <<>>
    /\ games_counted = Len(players_to_count)
    /\ stats["PTS"] # Zero

(* C6: a player whose acquisition date is after a day is not counted on
   that day, in past-day and in remaining-day mode. *)
C6_NotCountedBeforeAcquisition ==
    DayHandled =>
        \A k \in 1 .. Len(players_to_count) :
            LET key == player_info[players_to_count[k]].player_key
            IN  key \in DOMAIN acquisition_dates => ~(Today < acquisition_dates[key])

OtherwiseEligible(i) ==
    /\ player_info[i].injury_factor = Int2R(1)
    /\ player_info[i].roster_position \notin INACTIVE_POSITIONS
    /\ player_info[i].normalized_team \in teams_playing

(* C6 witness: a healthy player in an active slot whose team plays is left
   out on a remaining day before the acquisition date although the cap is
   not reached, and was not counted on the past game days either. *)
C6_Witness ==
    /\ DayHandled /\ ~include_il_players
    /\ 1 \in DOMAIN acquisition_dates /\ Today < acquisition_dates[1]
    /\ 1 \notin DOMAIN il_placements
    /\ OtherwiseEligible(1)
    /\ ~InSeq(1, players_to_count)
    /\ players_to_count # <<>>
    /\ Len(players_to_count) < 10
    /\ past_games_counted_calc > 0
    /\ player_info[1].games_counted = 0

(* C7: a player on the inactive list on a day (day >= placement date and,
   if a removal date exists, day < removal date) is not counted on that
   day, in past-day and in remaining-day mode. *)
C7_NotCountedWhileOnIL ==
    DayHandled =>
        \A k \in 1 .. Len(players_to_count) :
            LET key == player_info[players_to_count[k]].player_key
            IN  ~(/\ key \in DOMAIN il_placements
                  /\ Today >= il_placements[key]
                  /\ (key \in DOMAIN il_removals => Today < il_removals[key]))

(* C7 witness: a healthy player in an active slot whose team plays is on
   the inactive list on a remaining day (placed earlier, removal date
   ahead) and is left out although the cap is not reached, and was left out
   on the past game days too. *)
C7_Witness ==
    /\ DayHandled /\ ~include_il_players
    /\ 1 \in DOMAIN il_placements /\ Today >= il_placements[1]
    /\ 1 \in DOMAIN il_removals /\ Today < il_removals[1]
    /\ 1 \notin DOMAIN acquisition_dates
    /\ OtherwiseEligible(1)
    /\ ~InSeq(1, players_to_count)
    /\ players_to_count # <<>>
    /\ Len(players_to_count) < 10
    /\ past_games_counted_calc > 0
    /\ player_info[1].games_counted = 0

InILSlot(i) == player_info[i].roster_position \in INACTIVE_POSITIONS

(* The IL history has the player on the inactive list on the day: placed on
   or before it and, if a removal is recorded, removed after it *)
HistoryOnIL(i, day) ==
    LET key == player_info[i].player_key
    IN  /\ key \in DOMAIN il_placements
        /\ day >= il_placements[key]
        /\ (key \in DOMAIN il_removals => day < il_removals[key])

(* C22, as amended: a player in an IL or IL+ slot is never counted on a
   remaining day, and is counted on a past day only if the IL history does
   not have the player on the inactive list on that day: no placement is
   recorded, or the day is before the placement, or on or after a recorded
   removal. *)
C22_ILSlotCountedOnlyOffInactiveList ==
    DayHandled =>
        \A k \in 1 .. Len(players_to_count) :
            LET i == players_to_count[k]
            IN  InILSlot(i) =>
                    /\ include_il_players
                    /\ Today < today_date_pst
                    /\ ~HistoryOnIL(i, Today)

(* C22 as stated: such a player is counted on a past day only if the IL
   history shows that the player had not yet been placed on that day. *)
C22_AsStated ==
    DayHandled =>
        \A k \in 1 .. Len(players_to_count) :
            LET i == players_to_count[k]
                key == player_info[i].player_key
            IN  InILSlot(i) =>
                    /\ include_il_players
                    /\ key \in DOMAIN il_placements => Today < il_placements[key]

(* A player now in an IL slot, placed on the first day and recorded as
   removed on the third, is counted on the third day, a past day *)
C22_CountedAfterRemoval ==
    /\ DayHandled /\ include_il_players
    /\ InILSlot(1) /\ 1 \in DOMAIN il_placements /\ 1 \in DOMAIN il_removals
    /\ Today >= il_removals[1]
    /\ InSeq(1, players_to_count)

(* C22 witness: a player now in an IL slot, placed there on the second day
   of the week, is counted on the first day, a past day. *)
C22_Witness ==
    /\ DayHandled /\ include_il_players
    /\ InILSlot(1) /\ 1 \in DOMAIN il_placements
    /\ Today < il_placements[1]
    /\ InSeq(1, players_to_count)
    /\ player_info[1].games_counted = 1

(* The same player is left out on a past day on or after the placement,
   having been counted before it *)
C22_LeftOutAfterPlacement ==
    /\ DayHandled /\ include_il_players
    /\ InILSlot(1) /\ HistoryOnIL(1, Today)
    /\ player_info[1].normalized_team \in teams_playing
    /\ ~InSeq(1, players_to_count) /\ players_to_count # <<>>
    /\ player_info[1].games_counted = 1

(* and on a remaining day before the placement recorded for the player *)
C22_LeftOutOnRemainingDay ==
    /\ DayHandled /\ ~include_il_players
    /\ InILSlot(1) /\ ~HistoryOnIL(1, Today)
    /\ player_info[1].normalized_team \in teams_playing
    /\ ~InSeq(1, players_to_count) /\ players_to_count # <<>>

(* C23: a player whose injury factor is 0 is never among the players
   counted on a day, in past-day and in remaining-day mode, and never has
   the games-counted tally incremented: every counted player-day has a
   strictly positive injury factor. *)
C23_AsStated ==
    /\ DayHandled =>
          \A k \in 1 .. Len(players_to_count) :
              RGt(player_info[players_to_count[k]].injury_factor, Zero)
    /\ \A i \in 1 .. Len(player_info) :
          player_info[i].injury_factor = Zero => player_info[i].games_counted = 0

(* A player whose status gives the factor 0 and who is in no IL slot is
   left out on a past and on a remaining day, as the claim says *)
C23_OutPlayerLeftOut ==
    /\ DayHandled /\ ~include_il_players /\ Len(past_days) >= 1
    /\ past_games_counted_calc > 0
    /\ player_info[1].injury_factor = Zero /\ ~InILSlot(1)
    /\ player_info[1].normalized_team \in teams_playing
    /\ ~InSeq(1, players_to_count) /\ players_to_count # <<>>
    /\ player_info[1].games_counted = 0

(* A player in an IL slot, whose factor is 0, takes one of the 10 places of
   a past day and leaves an eligible player with a game out *)
C23_ZeroFactorTakesSlot ==
    /\ DayHandled /\ include_il_players
    /\ InILSlot(1) /\ player_info[1].injury_factor = Zero
    /\ InSeq(1, players_to_count)
    /\ Len(players_to_count) = 10
    /\ \E i \in PassingToday :
          /\ ~InSeq(i, players_to_count)
          /\ player_info[i].injury_factor = Int2R(1)

(* The stat map of the player holds no value for the stat id *)
Missing(i, id) == ~Truthy(player_info[i].avg_stats, id)

(* One game's worth of makes and attempts as the claim has it: from the
   player's makes and attempts, else estimated from the player's points,
   and zero when the stat map holds neither *)
ClaimedShooting(i) ==
    LET code == PlayerShooting(player_info[i])
        noFG == Missing(i, "12") /\ (Missing(i, "3") \/ Missing(i, "4"))
        noFT == Missing(i, "12") /\ (Missing(i, "6") \/ Missing(i, "7"))
    IN  [fgm |-> IF noFG THEN Zero ELSE code["fgm"],
         fga |-> IF noFG THEN Zero ELSE code["fga"],
         ftm |-> IF noFT THEN Zero ELSE code["ftm"],
         fta |-> IF noFT THEN Zero ELSE code["fta"]]

ClaimedCounting(i, cat) ==
    IF Missing(i, STAT_CATEGORIES[cat]) THEN Zero
    ELSE PlayerCounting(player_info[i], cat)

(* C24: a counted player whose stat map lacks a value adds zero to every
   category whose value is missing, estimated field-goal and free-throw
   makes and attempts included; the day's totals grow by what the players
   with data add, and the loop goes on. *)
C24_AsStated ==
    [][(pc = "loop" /\ day_idx' = day_idx + 1 /\ teams_playing' # {}) =>
          LET counted == {players_to_count'[k] : k \in 1 .. Len(players_to_count')}
          IN  /\ \A cat \in COUNTING_STATS :
                    LET one(i) == ClaimedCounting(i, cat)
                    IN  stats'[cat] = RAdd(stats[cat], SumOver(counted, one))
              /\ \A f \in {"fgm", "fga", "ftm", "fta"} :
                    LET one(i) == ClaimedShooting(i)[f]
                    IN  fg_data'[f] = RAdd(fg_data[f], SumOver(counted, one))
              /\ pc' = "loop"]_vars

(* The counting categories do behave so: a counted player with an empty
   stat map leaves every counting total of the day at what the other
   counted player adds, and the projection runs to its end *)
C24_CountingUntouched ==
    /\ pc = "done" /\ Len(roster) = 2
    /\ player_info[1].avg_stats = EmptyDict
    /\ player_info[1].games_counted > 0
    /\ player_info[1].games_counted = player_info[2].games_counted
    /\ \A cat \in COUNTING_STATS :
          RAdd(past_stats[cat], remaining_stats[cat]) =
             RMul(Int2R(player_info[2].games_counted),
                  PlayerCounting(player_info[2], cat))

(* The attempts do not: the same player adds 8 field-goal attempts with 3.6
   makes and 3 free-throw attempts with 2.25 makes on a day *)
C24_FabricatedAttempts ==
    /\ DayHandled /\ day_idx = 1 /\ Len(roster) = 2
    /\ player_info[1].avg_stats = EmptyDict
    /\ players_to_count = <<1, 2>>
    /\ fg_data["fga"] = RAdd(Int2R(8), PlayerShooting(player_info[2])["fga"])
    /\ fg_data["fgm"] = RAdd(Rat(36, 10), PlayerShooting(player_info[2])["fgm"])
    /\ fg_data["fta"] = RAdd(Int2R(3), PlayerShooting(player_info[2])["fta"])
    /\ fg_data["ftm"] = RAdd(Rat(225, 100), PlayerShooting(player_info[2])["ftm"])

(* and so does a player whose stat map holds rebounds only *)
C24_PartialMapFabricates ==
    /\ DayHandled /\ day_idx = 1 /\ Len(roster) = 2
    /\ player_info[1].avg_stats = RosterStatsPartial
    /\ players_to_count = <<1, 2>>
    /\ stats["REB"] = RAdd(Int2R(8), PlayerCounting(player_info[2], "REB"))
    /\ stats["PTS"] = PlayerCounting(player_info[2], "PTS")
    /\ fg_data["fga"] = RAdd(Int2R(8), PlayerShooting(player_info[2])["fga"])

OnBench(i) == player_info[i].roster_position = BENCH_POSITION

(* j comes before i in the order the day's players are taken: players in a
   slot other than the bench first, then the bench, each in roster order *)
TakenBefore(j, i) ==
    \/ ~OnBench(j) /\ OnBench(i)
    \/ OnBench(j) = OnBench(i) /\ j < i

CountedToday == {players_to_count[k] : k \in 1 .. Len(players_to_count)}

(* C21, as amended: on every day the players counted are the first 10 (or
   all, if fewer) of the day's eligible players, taken with the players in a
   slot other than the bench first and the bench players after them, each
   group in roster order: an eligible player is left out only if at least
   10 eligible players come before that player in this order. *)
C21_StartersThenBench ==
    (DayHandled /\ teams_playing # {}) =>
        /\ CountedToday \subseteq PassingToday
        /\ Len(players_to_count) = Cardinality(CountedToday)
        /\ \A i \in PassingToday :
              i \in CountedToday <=>
                 Cardinality({j \in PassingToday : TakenBefore(j, i)}) < 10
        /\ \A k \in 1 .. Len(players_to_count) - 1 :
              TakenBefore(players_to_count[k], players_to_count[k + 1])

(* C21 as stated: an eligible player is left out only if at least 10
   eligible players precede that player in the roster. *)
C21_AsStated ==
    (DayHandled /\ teams_playing # {}) =>
        \A i \in PassingToday :
            i \notin CountedToday =>
                Cardinality({j \in PassingToday : j < i}) >= 10

(* C21 witness: the first player of the roster sits on the bench and is
   eligible, eleven players in other slots are eligible after him, and the
   ten counted are ten of those eleven. *)
C21_Witness ==
    /\ DayHandled /\ teams_playing # {}
    /\ OnBench(1) /\ 1 \in PassingToday
    /\ Cardinality(PassingToday) > 11
    /\ 1 \notin CountedToday
    /\ Len(players_to_count) = 10
    /\ players_to_count[1] = 2

(* A bench player counted ahead of nobody: with at most 10 eligible players
   the bench player is counted, after the others *)
C21_BenchCountedLast ==
    /\ DayHandled /\ teams_playing # {}
    /\ OnBench(1) /\ 1 \in PassingToday
    /\ Len(players_to_count) = 2
    /\ players_to_count[2] = 1

---------------------------------------------------------------------------
(* Claims about the blending of actual and simulated totals *)

Done == pc = "done"

ActualOf(cat) == GetOr(actual_stats, STAT_CATEGORIES[cat], Zero)

(* C1, as amended: when actual accumulated totals are available and the
   week has at least one past day, the final total of every counting
   category is the actual accumulated value plus the simulated
   remaining-day contribution; the simulated past-day totals play no part. *)
C1_ActualPlusRemaining ==
    (Done /\ actual_stats # EmptyDict /\ Len(past_days) > 0) =>
        \A cat \in COUNTING_STATS :
            final_totals[cat] = RAdd(ActualOf(cat), remaining_stats[cat])

(* C1 as stated: the same whenever actual totals are available, whether or
   not a day of the week is past. *)
C1_AsStated ==
    (Done /\ actual_stats # EmptyDict) =>
        \A cat \in COUNTING_STATS :
            final_totals[cat] = RAdd(ActualOf(cat), remaining_stats[cat])

(* C1 witness: actual PTS 120 and a remaining-day contribution of 30 give
   150, while the simulated past days had scored points of their own. *)
C1_Witness ==
    /\ Done /\ Len(past_days) > 0
    /\ ActualOf("PTS") = Int2R(120)
    /\ remaining_stats["PTS"] = Int2R(30)
    /\ RGt(past_stats["PTS"], Zero)
    /\ final_totals["PTS"] = Int2R(150)

Pct(makes, attempts) ==
    IF RGt(attempts, Zero) THEN RMul(RDiv(makes, attempts), Int2R(100)) ELSE Zero

(* C4: the final FG% (FT%) is (past makes + remaining makes) /
   (past attempts + remaining attempts) x 100 over the aggregated makes
   and attempts, and 0 when the combined attempts are 0. *)
C4_PercentFromAggregates ==
    Done =>
        /\ final_totals["FG%"] =
             Pct(RAdd(est_past["fgm"], remaining_fg_data["fgm"]),
                 RAdd(est_past["fga"], remaining_fg_data["fga"]))
        /\ final_totals["FT%"] =
             Pct(RAdd(est_past["ftm"], remaining_fg_data["ftm"]),
                 RAdd(est_past["fta"], remaining_fg_data["fta"]))

(* C4 witness: past 20 makes of 40 attempts and remaining 6 makes of 10
   attempts give 52, where the mean of 50 and 60 would be 55. *)
C4_Witness ==
    /\ Done
    /\ est_past["fgm"] = Int2R(20) /\ est_past["fga"] = Int2R(40)
    /\ remaining_fg_data["fgm"] = Int2R(6) /\ remaining_fg_data["fga"] = Int2R(10)
    /\ final_totals["FG%"] = Int2R(52)

(* A week without a single attempt, where the percentage is 0, is reachable *)
C4_NoAttempts ==
    /\ Done
    /\ RAdd(est_past["fga"], remaining_fg_data["fga"]) = Zero
    /\ final_totals["FG%"] = Zero

(* C10: with no actual accumulated totals, every counting total is the
   simulated past-day total plus the simulated remaining-day total, and the
   percentages come from simulated past plus remaining makes and attempts. *)
C10_PureProjection ==
    (Done /\ actual_stats = EmptyDict) =>
        /\ \A cat \in COUNTING_STATS :
              final_totals[cat] = RAdd(past_stats[cat], remaining_stats[cat])
        /\ final_totals["FG%"] =
             Pct(RAdd(past_fg_data["fgm"], remaining_fg_data["fgm"]),
                 RAdd(past_fg_data["fga"], remaining_fg_data["fga"]))
        /\ final_totals["FT%"] =
             Pct(RAdd(past_fg_data["ftm"], remaining_fg_data["ftm"]),
                 RAdd(past_fg_data["fta"], remaining_fg_data["fta"]))

(* C10 witness: no actual totals, points simulated both on past and on
   remaining days, and the final points are their sum. *)
C10_Witness ==
    /\ Done /\ actual_stats = EmptyDict
    /\ RGt(past_stats["PTS"], Zero)
    /\ RGt(remaining_stats["PTS"], Zero)
    /\ RGt(past_fg_data["fga"], Zero)
    /\ final_totals["PTS"] = RAdd(past_stats["PTS"], remaining_stats["PTS"])

NoRemainingDays == Done /\ remaining_days = <<>>

(* The reported percentage in percent, whichever form it came in *)
AsPercent(pct) == IF RGt(pct, Int2R(1)) THEN pct ELSE RMul(pct, Int2R(100))

(* C11: with no remaining day, the final FG% (FT%) is the accumulated
   makes over the accumulated attempts (in percent) whenever attempts were
   accumulated, and when the platform's accumulated totals are used with
   points scored and a non-zero percentage it is exactly that percentage. *)
C11_ZeroRemainingKeepsPercentage ==
    NoRemainingDays =>
        /\ RGt(est_past["fga"], Zero) =>
              final_totals["FG%"] = Pct(est_past["fgm"], est_past["fga"])
        /\ RGt(est_past["fta"], Zero) =>
              final_totals["FT%"] = Pct(est_past["ftm"], est_past["fta"])
        /\ (actual_stats # EmptyDict /\ RGt(ActualOf("PTS"), Zero)) =>
              /\ ActualOf("FG%") # Zero =>
                    final_totals["FG%"] = AsPercent(ActualOf("FG%"))
              /\ ActualOf("FT%") # Zero =>
                    final_totals["FT%"] = AsPercent(ActualOf("FT%"))

(* C11 witness: the week is over, games were simulated for its past days,
   and the accumulated 84 points at 50% from the field and 75% from the
   line come back as FG% 50 and FT% 75. *)
C11_Witness ==
    /\ NoRemainingDays
    /\ RGt(past_fg_data["fga"], Zero)
    /\ ActualOf("PTS") = Int2R(84)
    /\ ActualOf("FG%") = Int2R(50)
    /\ est_past["fga"] = Int2R(40) /\ est_past["fgm"] = Int2R(20)
    /\ final_totals["FG%"] = Int2R(50)
    /\ final_totals["FT%"] = Int2R(75)

(* The same with simulated totals only: the week is over, no actual totals
   are given and the percentage is that of the simulated past days *)
C11_SimulatedOnly ==
    /\ NoRemainingDays /\ actual_stats = EmptyDict
    /\ RGt(past_fg_data["fga"], Zero)
    /\ final_totals["FG%"] = Pct(past_fg_data["fgm"], past_fg_data["fga"])
    /\ RGt(final_totals["FG%"], Zero)

---------------------------------------------------------------------------
(* Claims about _compare_projections *)

(* C3: in every category other than turnovers the winner is the side with
   the strictly greater total, in turnovers the side with the strictly
   lesser total, and equal totals, 0 against 0 included, give 'tie'. *)
C3_WinnerPerCategory ==
    pc = "compared" =>
        \A cat \in CATEGORIES :
            LET m == my_total_projected[cat]
                o == opp_total_projected[cat]
                w == category_winners[cat]
            IN  /\ m = o => w = "tie"
                /\ cat # "TO" => /\ RGt(m, o) => w = "my_team"
                                 /\ RGt(o, m) => w = "opponent"
                /\ cat = "TO" => /\ RLt(m, o) => w = "my_team"
                                 /\ RLt(o, m) => w = "opponent"

(* C3 witness: fewer turnovers and more points both go to my team while
   the other categories stand 0 against 0 and are tied. *)
C3_Witness ==
    /\ pc = "compared"
    /\ RLt(my_total_projected["TO"], opp_total_projected["TO"])
    /\ category_winners["TO"] = "my_team"
    /\ RGt(my_total_projected["PTS"], opp_total_projected["PTS"])
    /\ category_winners["PTS"] = "my_team"
    /\ my_total_projected["REB"] = Zero /\ opp_total_projected["REB"] = Zero
    /\ category_winners["REB"] = "tie"
    /\ predicted_score = <<2, 0>>

InUnitInterval(x) == RLe(Zero, x) /\ RLe(x, Int2R(1))

Compared == pc = "compared"

WonBy(side) == {c \in CATEGORIES : category_winners[c] = side}

(* C13: the predicted score is (categories won by my team, categories won
   by the opponent); a tied category counts for neither, so the two wins
   and the ties add up to the 9 categories, and every pair of totals gets
   a verdict in every category. *)
C13_ScoreCountsWins ==
    Compared =>
        /\ DOMAIN category_winners = CATEGORIES
        /\ \A c \in CATEGORIES : category_winners[c] \in {"my_team", "opponent", "tie"}
        /\ predicted_score = <<Cardinality(WonBy("my_team")),
                               Cardinality(WonBy("opponent"))>>
        /\ predicted_score[1] + predicted_score[2] + Cardinality(WonBy("tie")) = 9

(* C13 witness: my team takes points, the opponent takes turnovers and the
   seven other categories are tied: the score is 1 : 1. *)
C13_Witness ==
    /\ Compared
    /\ category_winners["PTS"] = "my_team"
    /\ category_winners["TO"] = "opponent"
    /\ Cardinality(WonBy("tie")) = 7
    /\ predicted_score = <<1, 1>>

(* The confidence the claim gives for two raw totals *)
ClaimedConfidence(a, b) ==
    IF a = Zero /\ b = Zero THEN Rat(1, 2)
    ELSE RMin(RDiv(RAbs(RSub(a, b)), RAdd(RAbs(a), RAbs(b))), Int2R(1))

(* C14: in every category the confidence lies in [0,1]; it is exactly 0.5
   when both totals are 0 and otherwise |a-b| / (|a|+|b|), capped at 1. *)
C14_ConfidenceFormula ==
    Compared =>
        \A c \in CATEGORIES :
            /\ c \in DOMAIN confidence
            /\ InUnitInterval(confidence[c])
            /\ confidence[c] =
                  ClaimedConfidence(my_total_projected[c], opp_total_projected[c])

(* C14 witness: 0 against 0 gives 0.5, 5 against 10 gives 1/3 (turnovers
   included, where the values are compared negated), 10 against 0 gives 1. *)
C14_Witness ==
    /\ Compared
    /\ my_total_projected["REB"] = Zero /\ opp_total_projected["REB"] = Zero
    /\ confidence["REB"] = Rat(1, 2)
    /\ my_total_projected["TO"] = Int2R(5) /\ opp_total_projected["TO"] = Int2R(10)
    /\ confidence["TO"] = Rat(1, 3)
    /\ my_total_projected["PTS"] = Int2R(10) /\ opp_total_projected["PTS"] = Zero
    /\ confidence["PTS"] = Int2R(1)

---------------------------------------------------------------------------
(* Claims about requests *)

Responded == pc = "responded"

(* The week a request is about *)
EffectiveWeek ==
    IF WeekGiven(requested_week) THEN TheWeek(requested_week)
    ELSE platform_current_week

(* What the platform reports for a category; nothing reported counts 0 *)
Reported(team_stats, cat) ==
    IF STAT_CATEGORIES[cat] \in DOMAIN team_stats
    THEN team_stats[STAT_CATEGORIES[cat]] ELSE Zero

InPercent(v) ==
    IF RGt(v, Zero) /\ RLt(v, Int2R(1)) THEN RMul(v, Int2R(100)) ELSE v

FromScratchAttached ==
    /\ initial_my_projected =
          InitialProjection(MyRoster, RosterAverages, SameForAll(weekly_sched))
    /\ initial_opponent_projected =
          InitialProjection(OpponentRoster, RosterAverages, SameForAll(weekly_sched))

(* C8, as amended: when predict_matchup is given the current week and the
   matchup's week number is below it, both teams' final totals are the
   platform's actual totals, every counting category unchanged and FG% and
   FT% in percent (a value strictly between 0 and 1 is multiplied by 100);
   the from-scratch projection is attached and the result is flagged as a
   past week. *)
C8_PastWeekActualTotals ==
    (Responded /\ outcome = "prediction" /\ current_week # {}
       /\ week_num < TheWeek(current_week)) =>
        /\ is_past_week
        /\ \A cat \in COUNTING_STATS :
              /\ my_total_projected[cat] = Reported(matchup.my_stats, cat)
              /\ opp_total_projected[cat] = Reported(matchup.opp_stats, cat)
        /\ \A cat \in RATE_STATS :
              /\ my_total_projected[cat] = InPercent(Reported(matchup.my_stats, cat))
              /\ opp_total_projected[cat] = InPercent(Reported(matchup.opp_stats, cat))
        /\ FromScratchAttached

(* C8 as stated: a request for a week before the current week returns the
   platform's totals unchanged in every category, with the from-scratch
   projection attached and the past-week flag set. *)
C8_AsStated ==
    (Responded /\ outcome = "prediction" /\ current_week # {}
       /\ week_num < TheWeek(current_week)) =>
        /\ is_past_week
        /\ \A cat \in CATEGORIES :
              /\ my_total_projected[cat] = Reported(matchup.my_stats, cat)
              /\ opp_total_projected[cat] = Reported(matchup.opp_stats, cat)
        /\ FromScratchAttached

(* C8 witness: a past week whose actual 120 points are returned while the
   attached from-scratch projection says otherwise, and whose FG% of 0.5
   comes back as 50. *)
C8_Witness ==
    /\ Responded /\ route = "predict" /\ outcome = "prediction"
    /\ week_num < TheWeek(current_week)
    /\ is_past_week
    /\ matchup.my_stats["12"] = Int2R(120)
    /\ my_total_projected["PTS"] = Int2R(120)
    /\ RGt(initial_my_projected["PTS"], Zero)
    /\ initial_my_projected["PTS"] # my_total_projected["PTS"]
    /\ matchup.my_stats["5"] = Rat(1, 2)
    /\ my_total_projected["FG%"] = Int2R(50)

(* The requested week is a playoff week and its pairing is not set *)
PlayoffUndetermined ==
    /\ WeekGiven(playoff_start_week)
    /\ EffectiveWeek >= TheWeek(playoff_start_week)
    /\ IF route = "predict_all"
       THEN \A i \in 1 .. Len(scoreboard) : scoreboard[i] # 2
       ELSE my_team_found /\ (~matchup.found \/ ~matchup.has_opponent)

(* C9 as stated: a request for a playoff week whose matchup is not
   determined always ends in PlayoffWeekError, never in a prediction, and
   the caller renders a playoff page, not a generic error. *)
C9_AsStated ==
    (Responded /\ PlayoffUndetermined) =>
        /\ outcome = "PlayoffWeekError"
        /\ rendered \in {"playoff.html", "playoff_all.html"}

(* The single-matchup prediction itself always raises PlayoffWeekError for
   such a week; the divergences are in the callers and in the all-matchups
   prediction. *)
SingleMatchupRaises ==
    (Responded /\ PlayoffUndetermined /\ route # "predict_all") =>
        outcome = "PlayoffWeekError"

ApiRendersGenericError ==
    /\ Responded /\ PlayoffUndetermined /\ route = "api_predict"
    /\ outcome = "PlayoffWeekError" /\ rendered = "json error 500"

AllMatchupsEmptyPrediction ==
    /\ Responded /\ PlayoffUndetermined /\ route = "predict_all"
    /\ outcome = "predictions" /\ predictions = <<>>
    /\ rendered = "all_matchups.html"

---------------------------------------------------------------------------
(* Claims about the injury model *)

FactorReturned == pc = "factor"

TheStatus == roster[1].status

(* The claim's table, by the stripped status string *)
TableOut == {"Out", "O", "Doubtful", "D", "SUSP", "INJ", "IL", "IL+"}
TableProbable == {"Probable", "P"}
TableQuestionable == {"Questionable", "Q", "GTD"}
UnpaddedStatus ==
    CASE TheStatus \in {" Q"}    -> "Q"
      [] TheStatus = "O "        -> "O"
      [] TheStatus = " Out "     -> "Out"
      [] TheStatus = "GTD "      -> "GTD"
      [] TheStatus = " "         -> ""
      [] OTHER                   -> TheStatus

(* C12, as amended: every status string maps to a probability in [0,1] by
   the fixed table, matched exactly after surrounding whitespace is
   removed: Out, O, Doubtful, D, SUSP, INJ, IL, IL+ give 0; Probable and P
   0.85; Questionable, Q and GTD 0.45; DTD 0.65; Healthy and the empty
   string 1; every other string, the long forms of GTD, DTD, SUSP and INJ
   included, gives 1. *)
C12_FixedTable ==
    FactorReturned =>
        /\ InUnitInterval(injury_factor)
        /\ injury_factor =
              CASE UnpaddedStatus \in TableOut          -> Zero
                [] UnpaddedStatus \in TableProbable     -> Rat(17, 20)
                [] UnpaddedStatus \in TableQuestionable -> Rat(9, 20)
                [] UnpaddedStatus = "DTD"               -> Rat(13, 20)
                [] OTHER                                -> Int2R(1)

(* C12 as stated: the long form of each status gives the value of its
   abbreviation, so Suspended and Injured give 0, Game-Time-Decision 0.45
   and Day-to-Day 0.65. *)
C12_AsStated ==
    FactorReturned =>
        /\ TheStatus \in {"Suspended", "Injured", "Injured-List"} =>
              injury_factor = Zero
        /\ TheStatus \in {"Game-Time-Decision", "Game Time Decision"} =>
              injury_factor = Rat(9, 20)
        /\ TheStatus = "Day-to-Day" => injury_factor = Rat(13, 20)

(* C12 witness: a padded GTD resolved to 0.45 *)
C12_Witness ==
    /\ FactorReturned
    /\ TheStatus = "GTD "
    /\ injury_factor = Rat(9, 20)

(* Reachable: the long form Suspended counted as fully healthy, and an
   unknown string likewise *)
C12_LongFormHealthy ==
    /\ FactorReturned /\ TheStatus = "Suspended" /\ injury_factor = Int2R(1)

C12_UnknownHealthy ==
    /\ FactorReturned /\ TheStatus = "NA" /\ injury_factor = Int2R(1)

---------------------------------------------------------------------------
(* Claims about the cache warm-up *)

InWarmBody(t) == warm_pc[t] \in {"warming", "finally"}

(* C15: at most one execution of the body of _warm_league_caches is in
   progress at any time (and the lock is held exactly while one is); a call
   that finds the lock held goes straight to its return, having warmed
   nothing, and no call ever waits for the lock. *)
C15_WarmNeverConcurrent ==
    /\ [](/\ Cardinality({t \in Threads : InWarmBody(t)}) <= 1
          /\ warm_lock <=> \E t \in Threads : InWarmBody(t)
          /\ \A t \in Threads : warm_pc[t] = "skipped" => warm_idx[t] = 0)
    /\ [][\A t \in Threads :
            /\ (warm_pc[t] = "called" /\ warm_leagues[t] > 0 /\ warm_pc'[t] # "called") =>
                  warm_pc'[t] = IF warm_lock THEN "skipped" ELSE "warming"
            /\ (warm_pc[t] = "skipped" /\ warm_pc'[t] # "skipped") =>
                  /\ warm_pc'[t] = "idle"
                  /\ warm_lock' = warm_lock]_vars

(* C15 witness: while one thread is in the middle of warming, a second call
   has been turned away and a third is about to try the lock. *)
C15_Witness ==
    \E t, u, v \in Threads :
        /\ warm_pc[t] = "warming" /\ warm_idx[t] = 1 /\ warm_leagues[t] = 2
        /\ warm_pc[u] = "skipped" /\ warm_leagues[u] > 0
        /\ warm_pc[v] = "called"
        /\ warm_lock

(* C29: every call of _warm_league_caches that acquires the guard releases
   it, whether every league was warmed or an error ended the loop: a thread
   that is warming reaches its return, and a held guard is free again at
   some later moment, so a later call is not turned away forever. *)
C29_GuardAlwaysReleased ==
    /\ \A t \in Threads : (warm_pc[t] = "warming") ~> (warm_pc[t] = "returned")
    /\ warm_lock ~> ~warm_lock

(* C29 witness: a call that took the guard was ended by an error before
   its last league, has returned, and the guard is free. *)
C29_Witness ==
    \E t \in Threads :
        /\ warm_pc[t] = "returned"
        /\ warm_leagues[t] = 2 /\ warm_idx[t] = 1
        /\ ~warm_lock
        /\ \A u \in Threads \ {t} : warm_pc[u] = "idle"

---------------------------------------------------------------------------
(* Claims about the prediction cache *)

CacheResponded == pc = "cache_responded"

(* A step in which a request reads the cache *)
CacheReadStep ==
    /\ pc = "cache_idle" /\ pc' # "cache_idle"
    /\ cache_req'.kind \in {"predict_all", "records"}

LiveEntry(key) ==
    /\ key \in DOMAIN prediction_cache
    /\ now < prediction_cache[key].expires

(* C16: a read returns the stored data exactly when an entry exists for
   the key and the time is strictly before its expiry, which is the time
   of the store plus 3600 s; a read at or after the expiry returns a miss
   and removes the entry. *)
C16_ReadBeforeExpiry ==
    [][/\ CacheReadStep =>
            /\ LiveEntry(cache_key') =>
                  /\ cached' = {prediction_cache[cache_key'].data}
                  /\ prediction_cache' = prediction_cache
            /\ ~LiveEntry(cache_key') =>
                  /\ cached' = {}
                  /\ cache_key' \notin DOMAIN prediction_cache'
                  /\ \A k \in DOMAIN prediction_cache \ {cache_key'} :
                        /\ k \in DOMAIN prediction_cache'
                        /\ prediction_cache'[k] = prediction_cache[k]
       /\ (pc = "computing" /\ cache_outcome' = "computed") =>
            prediction_cache'[cache_key].expires = now + 3600]_vars

(* C16 witness: a read of the all-matchups entry of league A, week 1, at
   the very second of its expiry (the records entry stored with it expires
   now): the read misses and the entry is gone. *)
C16_Witness ==
    /\ pc = "computing" /\ cache_req.kind = "predict_all"
    /\ cache_key = "all_matchups:A:1"
    /\ cached = {}
    /\ cache_key \notin DOMAIN prediction_cache
    /\ "projected_records:A:1:1" \in DOMAIN prediction_cache
    /\ prediction_cache["projected_records:A:1:1"].expires = now
    /\ now = 3600

(* Reachable: a read one half-life before the expiry is a hit *)
C16_HitBeforeExpiry ==
    /\ CacheResponded /\ cache_outcome = "hit"
    /\ prediction_cache[cache_key].expires = now + 1800
    /\ cached = {prediction_cache[cache_key].data}

PredictAllResponded == CacheResponded /\ cache_req.kind = "predict_all"

(* C17, as amended: a predict_all_matchups request for a league and week
   whose stored result is unexpired returns that result without fetching
   rosters or simulating; every result computed from a non-empty
   scoreboard is stored under the league/week key for 3600 s; the empty
   list returned for an empty scoreboard is not stored. *)
C17_MemoizedPerLeagueWeek ==
    /\ [](PredictAllResponded =>
            /\ cache_key = AllMatchupsKey(cache_req.league, cache_req.week)
            /\ cache_outcome = "hit" =>
                  /\ ~fetched /\ returned = cached /\ returned # {}
                  /\ LiveEntry(cache_key)
                  /\ prediction_cache[cache_key].data \in returned
            /\ cache_outcome = "computed" =>
                  /\ fetched /\ returned = {<<roster_version>>}
                  /\ cache_key \in DOMAIN prediction_cache
                  /\ prediction_cache[cache_key] =
                        [data |-> <<roster_version>>, expires |-> now + 3600]
            /\ cache_outcome = "no matchups" =>
                  /\ returned = {<<>>}
                  /\ cache_key \notin DOMAIN prediction_cache)
    /\ [][(CacheReadStep /\ cache_req'.kind = "predict_all"
              /\ LiveEntry(cache_key')) =>
            /\ pc' = "cache_responded" /\ cache_outcome' = "hit"
            /\ returned' = {prediction_cache[cache_key'].data}]_vars

(* C17 as stated: every successfully returned batch result is stored under
   the league/week key. *)
C17_AsStated ==
    (PredictAllResponded /\ returned # {}) =>
        /\ cache_key \in DOMAIN prediction_cache
        /\ prediction_cache[cache_key].data \in returned

(* C17 witness: the rosters have changed since the result was stored; the
   request within the hour is answered from the store, with the result of
   the old rosters, and nothing is fetched; another league's entry is
   stored beside it. *)
C17_Witness ==
    /\ PredictAllResponded /\ cache_outcome = "hit"
    /\ cache_key = "all_matchups:A:1"
    /\ "all_matchups:B:1" \in DOMAIN prediction_cache
    /\ roster_version = 1
    /\ returned = {<<0>>}
    /\ ~fetched
    /\ now = 1800

(* C18 as stated: the clear-cache operation leaves the prediction cache
   empty. *)
C18_AsStated ==
    (CacheResponded /\ cache_req.kind = "clear") => prediction_cache = <<>>

(* Reachable: the clear-cache operation has run and a live entry computed
   from the rosters before the change is still stored *)
C18_StaleEntrySurvivesClear ==
    /\ CacheResponded /\ cache_req.kind = "clear"
    /\ roster_version = 1
    /\ LiveEntry("all_matchups:A:1")
    /\ prediction_cache["all_matchups:A:1"].data = <<0>>

---------------------------------------------------------------------------
(* Claims about the batch prediction *)

BatchDone == pc = "batch_done"

(* The matchups of two teams, in scoreboard order *)
PairedMatchups ==
    LET RECURSIVE Pairs(_)
        Pairs(ms) == IF ms = <<>> THEN <<>>
                     ELSE IF Len(Head(ms)) = 2 THEN <<Head(ms)>> \o Pairs(Tail(ms))
                     ELSE Pairs(Tail(ms))
    IN  Pairs(batch_matchups)

(* What the platform holds, by team, leaving out the teams in `without' *)
PlatformRosters(without) ==
    [t \in TeamSet(batch_matchups) \ without |-> RosterOf(t)]

(* The averages of the players of those rosters, by player *)
PlatformAverages(without) ==
    LET keys == UNION {{RosterOf(t)[i].player_key : i \in 1 .. Len(RosterOf(t))} :
                         t \in TeamSet(batch_matchups) \ without}
    IN  [k \in {x \in keys : HasAverages(x)} |-> AveragesFor(k)]

(* The prediction of a pairing when the fetches of `without' fail *)
PredictionWithout(pair, without) ==
    PredictPair(pair[1], pair[2], PlatformRosters(without), PlatformAverages(without))

(* C19: a roster fetch that fails does not abort the batch: every matchup
   of two teams is predicted, and a pairing without a failed team gets the
   prediction it would have had if no fetch had failed. *)
C19_FailedFetchSparesSiblings ==
    BatchDone =>
        /\ Len(batch_predictions) = Len(PairedMatchups)
        /\ \A k \in 1 .. Len(PairedMatchups) :
              (PairedMatchups[k][1] \notin fetch_fails
                 /\ PairedMatchups[k][2] \notin fetch_fails) =>
                batch_predictions[k] = PredictionWithout(PairedMatchups[k], {})

(* C19 witness: the fetch of team 1 failed and was the first to be
   collected; the matchup of teams 3 and 4 is predicted as without the
   failure, and the matchup of teams 1 and 2 is predicted with team 1
   projected to nothing. *)
C19_Witness ==
    /\ BatchDone
    /\ fetch_fails = {1} /\ collected_order[1] = 1
    /\ batch_matchups = <<<<1, 2>>, <<3, 4>>>>
    /\ batch_predictions[2] = PredictionWithout(<<3, 4>>, {})
    /\ RGt(batch_predictions[2].team1.projected["PTS"], Zero)
    /\ batch_predictions[1].team1.projected["PTS"] = Zero
    /\ batch_predictions[1] # PredictionWithout(<<1, 2>>, {})

(* The predictions the inputs determine *)
DeterminedPredictions ==
    [k \in 1 .. Len(PairedMatchups) |->
        PredictionWithout(PairedMatchups[k], fetch_fails)]

(* C20: the rosters are read by the averages and the matchup loop only
   when every fetch has completed and been collected, and the list returned
   (order, totals, winners, scores) is the one the scoreboard, the
   platform's rosters and the failing fetches determine, whatever the order
   in which the fetches completed. *)
C20_OrderOfCompletionIrrelevant ==
    /\ pc \in {"predicting", "batch_done"} =>
          /\ \A t \in DOMAIN fetch_state : fetch_state[t] = "collected"
          /\ Len(collected_order) = Len(AllTeamKeys(batch_matchups))
          /\ DOMAIN all_rosters = TeamSet(batch_matchups) \ fetch_fails
    /\ BatchDone => batch_predictions = DeterminedPredictions

(* C20 witness: the fetches completed in the reverse of the order of
   submission, and the two predictions are the determined ones, in
   scoreboard order, with different scores. *)
C20_Witness ==
    /\ BatchDone
    /\ batch_matchups = <<<<1, 2>>, <<3, 4>>>>
    /\ collected_order = <<4, 3, 2, 1>>
    /\ fetch_fails = {}
    /\ batch_predictions = DeterminedPredictions
    /\ batch_predictions[1].team1.key = 1
    /\ batch_predictions[2].team1.key = 3
    /\ batch_predictions[1].predicted_score # batch_predictions[2].predicted_score

(* C27, as stated: the list returned holds predictions only for pairings
   whose two rosters were both fetched; a pairing with a failed roster
   fetch is left out or marked failed, never predicted from an empty
   roster *)
C27_AsStated ==
    BatchDone =>
        \A k \in 1 .. Len(batch_predictions) :
            /\ batch_predictions[k].team1.key \in DOMAIN all_rosters
            /\ batch_predictions[k].team2.key \in DOMAIN all_rosters

(* C27: the fetch of team 1 failed; its pairing is in the returned list as
   a prediction like any other, team 1 projected from the empty roster *)
C27_PredictedFromEmptyRoster ==
    /\ BatchDone
    /\ fetch_fails = {1}
    /\ batch_matchups = <<<<1, 2>>, <<3, 4>>>>
    /\ Len(batch_predictions) = 2
    /\ batch_predictions[1].team1.key = 1
    /\ batch_predictions[1] =
          PredictPair(1, 2, [t \in {2, 3, 4} |-> RosterOf(t)] @@ (1 :> <<>>),
                      PlatformAverages({1}))
    /\ DOMAIN batch_predictions[1] = DOMAIN batch_predictions[2]

(* C27: with no failed fetch every prediction is made from fetched rosters *)
C27_AllFetched ==
    /\ BatchDone
    /\ fetch_fails = {}
    /\ Len(batch_predictions) = 2
    /\ \A k \in 1 .. 2 : batch_predictions[k].team1.key \in DOMAIN all_rosters

---------------------------------------------------------------------------
(* Claims about the two pipelines *)

SingleDone == pc \in {"single_done", "both_done"}

(* The full simulator run over every day of the week as if nothing had
   been played: no accumulated stats, today before the first day *)
FromScratch(k) ==
    TotalProjected(EmptyDict, 0,
                   [stats |-> ZeroStats, fg_data |-> ZeroFG, games_counted |-> 0],
                   day_totals[k].whole_week)

(* C25, as stated: the initial projection attached to a prediction equals
   what the full simulator gives over all days of the week with no actual
   totals and every day simulated *)
C25_AsStated ==
    SingleDone =>
        /\ initial_my_projected = FromScratch(1)
        /\ initial_opponent_projected = FromScratch(2)

(* C25: the second player's stat map holds made and attempted field
   goals, which the simulator uses and the initial projection replaces by
   an estimate from points *)
C25_AttemptsEstimated ==
    /\ SingleDone
    /\ Len(roster) = 2
    /\ \A i \in 1 .. Len(roster) : roster[i] = DefaultPlayer(i)
    /\ acquisition_dates = NoDates
    /\ initial_my_projected["PTS"] = FromScratch(1)["PTS"]
    /\ initial_my_projected["FG%"] # FromScratch(1)["FG%"]

(* C25: more healthy starters than the daily cap, nobody acquired: the
   initial projection counts them all on every day *)
C25_CapNotApplied ==
    /\ SingleDone
    /\ Len(roster) > MAX_DAILY_STARTERS
    /\ roster[1] = DefaultPlayer(1)
    /\ acquisition_dates = NoDates
    /\ RGt(initial_my_projected["REB"], FromScratch(1)["REB"])

(* C25: a player acquired on day 3 is projected for the whole week *)
C25_AcquisitionNotApplied ==
    /\ SingleDone
    /\ Len(roster) = 2
    /\ acquisition_dates # NoDates
    /\ RGt(initial_my_projected["REB"], FromScratch(1)["REB"])

(* C25: two healthy starters, no cap reached, nobody acquired or
   inactive: the two agree *)
C25_AgreeOnPlainRoster ==
    /\ SingleDone
    /\ Len(roster) = 2
    /\ \A i \in 1 .. Len(roster) : roster[i] = DefaultPlayer(i)
    /\ player_averages = MakeAverages("bbref", 0)
    /\ acquisition_dates = NoDates /\ il_placements = NoDates
    /\ initial_my_projected["PTS"] = FromScratch(1)["PTS"]
    /\ RGt(initial_my_projected["PTS"], Zero)

BothDone == pc = "both_done"

(* C26, as stated: for a past, the current or a future week alike, the
   batch gives the pairing the category totals, the category winners and
   the score that predict_matchup gives it *)
C26_AsStated ==
    BothDone =>
        /\ batch_predictions[1].team1.projected = my_total_projected
        /\ batch_predictions[1].team2.projected = opp_total_projected
        /\ batch_predictions[1].category_winners = category_winners
        /\ batch_predictions[1].predicted_score =
              ToString(predicted_score[1]) \o "-" \o ToString(predicted_score[2])

(* C26: the same for the current week and for a future week *)
C26_SameUnlessPastWeek ==
    (BothDone /\ ~is_past_week) =>
        /\ batch_predictions[1].team1.projected = my_total_projected
        /\ batch_predictions[1].team2.projected = opp_total_projected
        /\ batch_predictions[1].category_winners = category_winners
        /\ batch_predictions[1].predicted_score =
              ToString(predicted_score[1]) \o "-" \o ToString(predicted_score[2])

(* C26: a past week for which the platform reports no stats: the single
   pipeline shows zeros, the batch simulates the week *)
C26_PastWeekSimulatedByBatch ==
    /\ BothDone /\ is_past_week
    /\ matchup.my_stats = EmptyDict
    /\ my_total_projected["PTS"] = Zero
    /\ RGt(batch_predictions[1].team1.projected["PTS"], Zero)

(* C26: a past week with the stats of a played week (points scored,
   percentages reported): the two agree *)
C26_PastWeekWithStatsAgrees ==
    (BothDone /\ is_past_week /\ matchup.my_stats = ActualInProgress) =>
        /\ batch_predictions[1].team1.projected = my_total_projected
        /\ batch_predictions[1].team2.projected = opp_total_projected
        /\ batch_predictions[1].category_winners = category_winners

(* C26: such a week is reached *)
C26_PastWeekWithStats ==
    /\ BothDone /\ is_past_week
    /\ matchup.my_stats = ActualInProgress
    /\ batch_predictions[1].team1.projected["FG%"] = Int2R(50)
    /\ my_total_projected["FG%"] = Int2R(50)

(* C26: the current week, one day played *)
C26_CurrentWeekAgrees ==
    /\ BothDone /\ ~is_past_week
    /\ get_pacific_date(clock) = 2
    /\ matchup.my_stats = ActualInProgress
    /\ batch_predictions[1].team1.projected = my_total_projected
    /\ batch_predictions[1].predicted_score =
          ToString(predicted_score[1]) \o "-" \o ToString(predicted_score[2])

---------------------------------------------------------------------------
(* Claims about the lazy eviction *)

(* C30, as stated: whatever the interleaving of two lookups of the same
   expired key, neither raises: each returns a miss (or the entry stored
   again in the meantime) *)
C30_AsStated ==
    \A t \in LookupThreads :
        /\ lookup_pc[t] # "raised"
        /\ lookup_result[t] # "KeyError"

(* C30: both threads found the expired entry; one has deleted it and
   returned a miss, the other has raised KeyError on its own del *)
C30_SecondDeleteRaises ==
    \E t, u \in LookupThreads :
        /\ t # u
        /\ lookup_pc[t] = "returned" /\ lookup_result[t] = "None"
        /\ lookup_pc[u] = "raised" /\ lookup_result[u] = "KeyError"
        /\ EvictKey \notin DOMAIN prediction_cache

(* C30: a lookup of the expired key that no other lookup crosses deletes
   the entry and returns a miss *)
C30_AloneReturnsMiss ==
    \E t, u \in LookupThreads :
        /\ t # u
        /\ lookup_pc[t] = "returned" /\ lookup_result[t] = "None"
        /\ lookup_pc[u] = "idle" /\ lookup_result[u] = "none"
        /\ EvictKey \notin DOMAIN prediction_cache
        /\ now >= PREDICTION_CACHE_TTL

---------------------------------------------------------------------------
(* Claims about the split of the week *)

(* The hour in the Pacific zone at the moment the server's clock reads
   c.now: the server's offset removed, the zone's own offset applied *)
PacificHour(c) == c.now - c.utc_offset + (IF c.pacific_dst THEN -7 ELSE -8)

PacificDate(c) == PacificHour(c) \div 24

(* C28, as stated: once the week is split, every day of the week is in
   exactly one of past_days and remaining_days, and a day is past exactly
   when it is before today's date in the Pacific zone, today itself being
   a remaining day *)
C28_AsStated ==
    pc = "split" =>
        /\ \A d \in Days : InSeq(d, past_days) # InSeq(d, remaining_days)
        /\ \A d \in Days : InSeq(d, past_days) <=> d < PacificDate(clock)

(* C28: the two lists never share a day and miss none, whatever the clock *)
C28_ExactlyOneList ==
    pc = "split" =>
        \A d \in Days : InSeq(d, past_days) # InSeq(d, remaining_days)

(* C28: a server two hours ahead of UTC, shortly before midnight in the
   Pacific zone: today is already listed as past *)
C28_TodayListedAsPast ==
    /\ pc = "split"
    /\ clock.utc_offset = 2
    /\ PacificDate(clock) \in Days
    /\ InSeq(PacificDate(clock), past_days)

(* C28: a server on UTC in early March, the zone still on standard time
   and the program applying daylight time *)
C28_MonthTakenForDaylightTime ==
    /\ pc = "split"
    /\ clock.utc_offset = 0
    /\ clock.month = 3
    /\ PacificDate(clock) \in Days
    /\ InSeq(PacificDate(clock), past_days)

(* C28: a server on UTC in January splits the week at the Pacific date *)
C28_RightOnUtcInWinter ==
    /\ pc = "split"
    /\ clock.utc_offset = 0
    /\ clock.month = 1
    /\ PacificDate(clock) \in Days
    /\ \A d \in Days : InSeq(d, past_days) <=> d < PacificDate(clock)

=============================================================================
